---- MODULE Spec2Model ----
(***************************************************************************)
(* State-machine model of the Tetris rules engine: GameController and the  *)
(* systems it owns (PieceBag, CollisionDetector, RotationSystem,           *)
(* LockDelaySystem, GravitySystem, LineClearSystem, ScoringSystem,         *)
(* LevelSystem).  Every method is an operator from a controller record to  *)
(* a controller record; every public operation and timer callback is an    *)
(* action that applies the whole method, nested calls included.            *)
(***************************************************************************)
EXTENDS Integers, Sequences, FiniteSets, TLC

(***************************************************************************)
(* Bounds of the exploration.                                              *)
(***************************************************************************)
\* Seeds handed to new GameController(seed).
Seeds == {35, 66}
\* The player hard-drops each of the first BuildPieces pieces as soon as it
\* appears, steers the piece drawn after them with every intent, and
\* hard-drops the later ones again.
BuildPieces == 10
\* No operation is taken that would draw more than MaxDraws pieces.
MaxDraws == 13
\* A piece goes down step by step (gravity tick, moveDown, soft drop) at most
\* MaxFall rows below the row it is spawned in; hardDrop is not limited.
MaxFall == 2
\* Where the host prepares the grid and the piece through getState(): it
\* chooses freely for the first FreeDraws pieces drawn and prepares a
\* four-line clear for each later one, until MaxLines lines are cleared.
FreeDraws == 2
MaxLines == 210
\* The host of the LineClearSystem fills row 0 and the LineRows bottom rows.
LineRows == 3

(***************************************************************************)
(* model/constants.ts                                                      *)
(***************************************************************************)
FIELD_WIDTH == 10
FIELD_VISIBLE_HEIGHT == 20
FIELD_BUFFER_HEIGHT == 20
FIELD_TOTAL_HEIGHT == 40

(***************************************************************************)
(* model/types.ts                                                          *)
(***************************************************************************)
TetrominoType == {"I", "O", "T", "S", "Z", "J", "L"}
RotationState == 0..3
\* GameStatus enum
Playing == "playing"
Paused == "paused"
GameOver == "game_over"
\* A Cell is a TetrominoType or null; "null" stands for JavaScript null and
\* "0" for the number 0 (RotationSystem compares cells with 0).
NullCell == "null"
ZeroCell == "0"
\* Piece | null: a null piece is the record whose type is "null".
NullPiece == [type |-> "null", position |-> [x |-> 0, y |-> 0], rotation |-> 0]

Piece(t, px, py, r) == [type |-> t, position |-> [x |-> px, y |-> py], rotation |-> r]

\* matrix[y][x] of the source, 0-based, on a sequence of rows.
CellAt(matrix, y, x) == matrix[y + 1][x + 1]

EmptyRow == [x \in 1..FIELD_WIDTH |-> NullCell]

(***************************************************************************)
(* model/shapes.ts: 4x4 masks, SHAPES[type][rotation][y][x].               *)
(***************************************************************************)
SHAPES ==
    "I" :> <<<<<<0, 0, 0, 0>>, <<1, 1, 1, 1>>, <<0, 0, 0, 0>>, <<0, 0, 0, 0>>>>,
             <<<<0, 0, 1, 0>>, <<0, 0, 1, 0>>, <<0, 0, 1, 0>>, <<0, 0, 1, 0>>>>,
             <<<<0, 0, 0, 0>>, <<0, 0, 0, 0>>, <<1, 1, 1, 1>>, <<0, 0, 0, 0>>>>,
             <<<<0, 1, 0, 0>>, <<0, 1, 0, 0>>, <<0, 1, 0, 0>>, <<0, 1, 0, 0>>>>>> @@
    "O" :> <<<<<<0, 1, 1, 0>>, <<0, 1, 1, 0>>, <<0, 0, 0, 0>>, <<0, 0, 0, 0>>>>,
             <<<<0, 1, 1, 0>>, <<0, 1, 1, 0>>, <<0, 0, 0, 0>>, <<0, 0, 0, 0>>>>,
             <<<<0, 1, 1, 0>>, <<0, 1, 1, 0>>, <<0, 0, 0, 0>>, <<0, 0, 0, 0>>>>,
             <<<<0, 1, 1, 0>>, <<0, 1, 1, 0>>, <<0, 0, 0, 0>>, <<0, 0, 0, 0>>>>>> @@
    "T" :> <<<<<<0, 1, 0, 0>>, <<1, 1, 1, 0>>, <<0, 0, 0, 0>>, <<0, 0, 0, 0>>>>,
             <<<<0, 1, 0, 0>>, <<0, 1, 1, 0>>, <<0, 1, 0, 0>>, <<0, 0, 0, 0>>>>,
             <<<<0, 0, 0, 0>>, <<1, 1, 1, 0>>, <<0, 1, 0, 0>>, <<0, 0, 0, 0>>>>,
             <<<<0, 1, 0, 0>>, <<1, 1, 0, 0>>, <<0, 1, 0, 0>>, <<0, 0, 0, 0>>>>>> @@
    "S" :> <<<<<<0, 1, 1, 0>>, <<1, 1, 0, 0>>, <<0, 0, 0, 0>>, <<0, 0, 0, 0>>>>,
             <<<<0, 1, 0, 0>>, <<0, 1, 1, 0>>, <<0, 0, 1, 0>>, <<0, 0, 0, 0>>>>,
             <<<<0, 0, 0, 0>>, <<0, 1, 1, 0>>, <<1, 1, 0, 0>>, <<0, 0, 0, 0>>>>,
             <<<<1, 0, 0, 0>>, <<1, 1, 0, 0>>, <<0, 1, 0, 0>>, <<0, 0, 0, 0>>>>>> @@
    "Z" :> <<<<<<1, 1, 0, 0>>, <<0, 1, 1, 0>>, <<0, 0, 0, 0>>, <<0, 0, 0, 0>>>>,
             <<<<0, 0, 1, 0>>, <<0, 1, 1, 0>>, <<0, 1, 0, 0>>, <<0, 0, 0, 0>>>>,
             <<<<0, 0, 0, 0>>, <<1, 1, 0, 0>>, <<0, 1, 1, 0>>, <<0, 0, 0, 0>>>>,
             <<<<0, 1, 0, 0>>, <<1, 1, 0, 0>>, <<1, 0, 0, 0>>, <<0, 0, 0, 0>>>>>> @@
    "J" :> <<<<<<1, 0, 0, 0>>, <<1, 1, 1, 0>>, <<0, 0, 0, 0>>, <<0, 0, 0, 0>>>>,
             <<<<0, 1, 1, 0>>, <<0, 1, 0, 0>>, <<0, 1, 0, 0>>, <<0, 0, 0, 0>>>>,
             <<<<0, 0, 0, 0>>, <<1, 1, 1, 0>>, <<0, 0, 1, 0>>, <<0, 0, 0, 0>>>>,
             <<<<0, 1, 0, 0>>, <<0, 1, 0, 0>>, <<1, 1, 0, 0>>, <<0, 0, 0, 0>>>>>> @@
    "L" :> <<<<<<0, 0, 1, 0>>, <<1, 1, 1, 0>>, <<0, 0, 0, 0>>, <<0, 0, 0, 0>>>>,
             <<<<0, 1, 0, 0>>, <<0, 1, 0, 0>>, <<0, 1, 1, 0>>, <<0, 0, 0, 0>>>>,
             <<<<0, 0, 0, 0>>, <<1, 1, 1, 0>>, <<1, 0, 0, 0>>, <<0, 0, 0, 0>>>>,
             <<<<1, 1, 0, 0>>, <<0, 1, 0, 0>>, <<0, 1, 0, 0>>, <<0, 0, 0, 0>>>>>>

\* The (y, x) pairs with shape[y][x] === 1, in the scan order of the loops.
Minos ==
    [t \in TetrominoType |->
        [r \in RotationState |->
            {yx \in (0..3) \X (0..3) : SHAPES[t][r + 1][yx[1] + 1][yx[2] + 1] = 1}]]

(***************************************************************************)
(* model/kicks.ts                                                          *)
(***************************************************************************)
WALL_KICK_DATA_JLSTZ ==
    "0->1" :> <<<<0, 0>>, <<-1, 0>>, <<-1, 1>>, <<0, -2>>, <<-1, -2>>>> @@
    "1->2" :> <<<<0, 0>>, <<1, 0>>, <<1, -1>>, <<0, 2>>, <<1, 2>>>> @@
    "2->3" :> <<<<0, 0>>, <<1, 0>>, <<1, 1>>, <<0, -2>>, <<1, -2>>>> @@
    "3->0" :> <<<<0, 0>>, <<-1, 0>>, <<-1, -1>>, <<0, 2>>, <<-1, 2>>>> @@
    "0->3" :> <<<<0, 0>>, <<1, 0>>, <<1, 1>>, <<0, -2>>, <<1, -2>>>> @@
    "3->2" :> <<<<0, 0>>, <<-1, 0>>, <<-1, -1>>, <<0, 2>>, <<-1, 2>>>> @@
    "2->1" :> <<<<0, 0>>, <<-1, 0>>, <<-1, 1>>, <<0, -2>>, <<-1, -2>>>> @@
    "1->0" :> <<<<0, 0>>, <<1, 0>>, <<1, -1>>, <<0, 2>>, <<1, 2>>>>

WALL_KICK_DATA_I ==
    "0->1" :> <<<<0, 0>>, <<-2, 0>>, <<1, 0>>, <<-2, -1>>, <<1, 2>>>> @@
    "1->2" :> <<<<0, 0>>, <<-1, 0>>, <<2, 0>>, <<-1, 2>>, <<2, -1>>>> @@
    "2->3" :> <<<<0, 0>>, <<2, 0>>, <<-1, 0>>, <<2, 1>>, <<-1, -2>>>> @@
    "3->0" :> <<<<0, 0>>, <<1, 0>>, <<-2, 0>>, <<1, -2>>, <<-2, 1>>>> @@
    "0->3" :> <<<<0, 0>>, <<-1, 0>>, <<2, 0>>, <<-1, 2>>, <<2, -1>>>> @@
    "3->2" :> <<<<0, 0>>, <<2, 0>>, <<-1, 0>>, <<2, 1>>, <<-1, -2>>>> @@
    "2->1" :> <<<<0, 0>>, <<1, 0>>, <<-2, 0>>, <<1, -2>>, <<-2, 1>>>> @@
    "1->0" :> <<<<0, 0>>, <<-2, 0>>, <<1, 0>>, <<-2, -1>>, <<1, 2>>>>

WALL_KICK_DATA_O ==
    "0->1" :> <<<<0, 0>>>> @@
    "1->2" :> <<<<0, 0>>>> @@
    "2->3" :> <<<<0, 0>>>> @@
    "3->0" :> <<<<0, 0>>>> @@
    "0->3" :> <<<<0, 0>>>> @@
    "3->2" :> <<<<0, 0>>>> @@
    "2->1" :> <<<<0, 0>>>> @@
    "1->0" :> <<<<0, 0>>>>

getWallKickTable(type) ==
    IF type = "I" THEN WALL_KICK_DATA_I
    ELSE IF type = "O" THEN WALL_KICK_DATA_O
    ELSE WALL_KICK_DATA_JLSTZ

getNextRotationState(current, direction) ==
    IF direction = "clockwise" THEN (current + 1) % 4 ELSE (current + 3) % 4

getRotationTransitionKey(from, to) ==
    <<"0", "1", "2", "3">>[from + 1] \o "->" \o <<"0", "1", "2", "3">>[to + 1]

(***************************************************************************)
(* model/PieceBag.ts                                                       *)
(***************************************************************************)
\* SeededRandomGenerator.  The seed is a JavaScript number: an integer kept
\* as its sign and the two 16-bit halves [hi, lo] of its magnitude, so that
\* a * seed + c never leaves 32-bit signed integer arithmetic.
LCG_A == 1664525
LCG_C == 1013904223
Half == 65536

SeedOf(n) ==
    IF n >= 0 THEN [neg |-> FALSE, hi |-> n \div Half, lo |-> n % Half]
    ELSE [neg |-> TRUE, hi |-> (0 - n) \div Half, lo |-> (0 - n) % Half]

\* this.seed = (a * this.seed + c) % m, with m = 2^32 = Half * Half.  The
\* remainder of JavaScript has the sign of the dividend: a negative
\* a * seed + c leaves a negative seed.
LcgNext(seed) ==
    LET aHi == LCG_A \div Half
        aLo == LCG_A % Half
        cHi == LCG_C \div Half
        cLo == LCG_C % Half
    IN  IF ~seed.neg
        THEN LET low == aLo * seed.lo + cLo
                 high == aHi * seed.lo + aLo * seed.hi + cHi + (low \div Half)
             IN  [neg |-> FALSE, hi |-> high % Half, lo |-> low % Half]
        ELSE IF seed.hi = 0 /\ LCG_A * seed.lo <= LCG_C
        THEN SeedOf(LCG_C - LCG_A * seed.lo)
        ELSE LET low == aLo * seed.lo
                 high == aHi * seed.lo + aLo * seed.hi + (low \div Half)
                 pLo == low % Half
                 pHi == high % Half
                 borrow == IF pLo < cLo THEN 1 ELSE 0
                 dLo == (pLo - cLo + Half) % Half
                 dHi == (pHi - cHi - borrow + 2 * Half) % Half
             IN  [neg |-> dHi # 0 \/ dLo # 0, hi |-> dHi, lo |-> dLo]

\* Math.floor((seed / m) * k) for the seed just produced: the floor of a
\* negative number is the negated ceiling of its magnitude.
ScaledFloor(seed, k) ==
    LET mid == seed.hi * k + ((seed.lo * k) \div Half)
        floorOfMagnitude == mid \div Half
        exact == mid % Half = 0 /\ (seed.lo * k) % Half = 0
    IN  IF ~seed.neg THEN floorOfMagnitude
        ELSE IF exact THEN 0 - floorOfMagnitude
        ELSE 0 - (floorOfMagnitude + 1)

\* result[i] of what has never been assigned
Undefined == "undefined"

\* A JavaScript array of 7 elements as the function of its keys: element j
\* (0-based) at key j + 1, and the property of a negative index j at key j.
ArrayOf(elements) ==
    [key \in ((0 - Len(elements))..(0 - 1)) \cup (1..Len(elements)) |->
        IF key > 0 THEN elements[key] ELSE Undefined]

KeyOf(j) == IF j >= 0 THEN j + 1 ELSE j

Swap(arr, i, j) == [arr EXCEPT ![i] = arr[j], ![j] = arr[i]]

\* shuffle(): Fisher-Yates from i = length - 1 down to 1 (0-based i, j).
\* Returns the elements of the shuffled array and the generator state after
\* it.
RECURSIVE ShuffleFrom(_, _, _)
ShuffleFrom(arr, i, seed) ==
    IF i <= 0
    THEN [result |-> [key \in {k \in DOMAIN arr : k > 0} |-> arr[key]], rng |-> seed]
    ELSE LET s1 == LcgNext(seed)
             j == ScaledFloor(s1, i + 1)
         IN  ShuffleFrom(Swap(arr, KeyOf(i), KeyOf(j)), i - 1, s1)

createShuffledBag(seed) ==
    ShuffleFrom(ArrayOf(<<"I", "O", "T", "S", "Z", "J", "L">>), 6, seed)

refillBag(pb) ==
    LET first == IF Len(pb.nextBag) > 0
                 THEN [result |-> pb.nextBag, rng |-> pb.rng]
                 ELSE createShuffledBag(pb.rng)
        second == createShuffledBag(first.rng)
    IN  [bag |-> first.result, nextBag |-> second.result, index |-> 0, rng |-> second.rng]

\* new PieceBag(seed)
NewPieceBag(seed) ==
    refillBag([bag |-> <<>>, nextBag |-> <<>>, index |-> 0, rng |-> SeedOf(seed)])

\* next(): the piece returned and the bag after the call
PieceBagNext(pb) ==
    LET b == IF pb.index >= Len(pb.bag) THEN refillBag(pb) ELSE pb
    IN  [value |-> b.bag[b.index + 1], pieceBag |-> [b EXCEPT !.index = @ + 1]]

\* The loop of peek(n) from its pass i on: the pieces collected and the bag
\* after the call.  Bags beyond the next one are shuffled on the fly, each
\* with this.rng.
RECURSIVE PeekLoop(_, _, _, _, _, _, _)
PeekLoop(pb, n, i, currentIndex, currentBag, bagIndex, result) ==
    IF i >= n THEN [result |-> result, pieceBag |-> pb]
    ELSE IF currentIndex >= Len(currentBag)
    THEN IF bagIndex + 1 = 1
         THEN LET made == createShuffledBag(pb.rng)
                  pb1 == IF Len(pb.nextBag) = 0
                         THEN [pb EXCEPT !.nextBag = made.result, !.rng = made.rng]
                         ELSE pb
              IN  PeekLoop(pb1, n, i + 1, 1, pb1.nextBag, bagIndex + 1,
                           Append(result, pb1.nextBag[1]))
         ELSE LET made == createShuffledBag(pb.rng)
              IN  PeekLoop([pb EXCEPT !.rng = made.rng], n, i + 1, 1, made.result,
                           bagIndex + 1, Append(result, made.result[1]))
    ELSE PeekLoop(pb, n, i + 1, currentIndex + 1, currentBag, bagIndex,
                  Append(result, currentBag[currentIndex + 1]))

\* peek(n): the list returned and the bag after the call
PieceBagPeek(pb, n) == PeekLoop(pb, n, 0, pb.index, pb.bag, 0, <<>>)

\* A reset() that keeps the pre-shuffled next bag.
PieceBagResetKeepingNextBag(pb, seed) ==
    refillBag([pb EXCEPT !.rng = IF seed # <<>> THEN SeedOf(seed[1]) ELSE @,
                         !.index = 0])

\* reset(seed?): the argument left out is <<>>, the argument given is <<seed>>.
PieceBagReset(pb, seed) ==
    refillBag([pb EXCEPT !.rng = IF seed # <<>> THEN SeedOf(seed[1]) ELSE @,
                         !.index = 0,
                         !.nextBag = <<>>])

(***************************************************************************)
(* controller/CollisionDetector.ts                                         *)
(***************************************************************************)
checkCollision(piece, matrix, pos, rot) ==
    \E yx \in Minos[piece.type][rot] :
        LET fieldX == pos.x + yx[2]
            fieldY == pos.y + yx[1]
        IN  \/ fieldX < 0 \/ fieldX >= FIELD_WIDTH
            \/ fieldY < 0 \/ fieldY >= FIELD_TOTAL_HEIGHT
            \/ CellAt(matrix, fieldY, fieldX) # NullCell

canMoveDown(piece, matrix) ==
    ~checkCollision(piece, matrix,
                    [x |-> piece.position.x, y |-> piece.position.y + 1], piece.rotation)

canMoveLeft(piece, matrix) ==
    ~checkCollision(piece, matrix,
                    [x |-> piece.position.x - 1, y |-> piece.position.y], piece.rotation)

canMoveRight(piece, matrix) ==
    ~checkCollision(piece, matrix,
                    [x |-> piece.position.x + 1, y |-> piece.position.y], piece.rotation)

(***************************************************************************)
(* controller/RotationSystem.ts                                            *)
(***************************************************************************)
\* RotationSystem's private checkCollision: a cell is free only if it === 0.
RotationCheckCollision(piece, matrix) ==
    \E yx \in Minos[piece.type][piece.rotation] :
        LET fieldX == piece.position.x + yx[2]
            fieldY == piece.position.y + yx[1]
        IN  \/ fieldX < 0 \/ fieldX >= FIELD_WIDTH
            \/ fieldY < 0 \/ fieldY >= FIELD_TOTAL_HEIGHT
            \/ CellAt(matrix, fieldY, fieldX) # ZeroCell

RECURSIVE TryKicks(_, _, _, _, _)
TryKicks(piece, targetRotation, kickTests, i, matrix) ==
    IF i > Len(kickTests) THEN [success |-> FALSE, piece |-> NullPiece, kickUsed |-> -1]
    ELSE LET kick == kickTests[i]
             testPiece == Piece(piece.type, piece.position.x + kick[1],
                                piece.position.y + kick[2], targetRotation)
         IN  IF ~RotationCheckCollision(testPiece, matrix)
             THEN [success |-> TRUE, piece |-> testPiece, kickUsed |-> i - 1]
             ELSE TryKicks(piece, targetRotation, kickTests, i + 1, matrix)

rotate(piece, direction, matrix) ==
    LET targetRotation == getNextRotationState(piece.rotation, direction)
        kickTable == getWallKickTable(piece.type)
        transitionKey == getRotationTransitionKey(piece.rotation, targetRotation)
    IN  IF transitionKey \notin DOMAIN kickTable
        THEN [success |-> FALSE, piece |-> NullPiece, kickUsed |-> -1]
        ELSE TryKicks(piece, targetRotation, kickTable[transitionKey], 1, matrix)

(***************************************************************************)
(* controller/LineClearSystem.ts                                           *)
(***************************************************************************)
isRowComplete(matrix, rowIndex) ==
    IF rowIndex < 0 \/ rowIndex >= FIELD_TOTAL_HEIGHT THEN FALSE
    ELSE \A col \in 0..(FIELD_WIDTH - 1) : CellAt(matrix, rowIndex, col) # NullCell

\* A getAffectedRows() that looks at the two rows a flat piece covers.
getAffectedRowsOfFlatPiece(pieceY, pieceHeight) ==
    SelectSeq(<<pieceY, pieceY + 1>>,
              LAMBDA rowIndex : rowIndex >= 0 /\ rowIndex < FIELD_TOTAL_HEIGHT)

getAffectedRows(pieceY, pieceHeight) ==
    LET all == [i \in 1..pieceHeight |-> pieceY + i - 1]
    IN  SelectSeq(all, LAMBDA rowIndex : rowIndex >= 0 /\ rowIndex < FIELD_TOTAL_HEIGHT)

RECURSIVE Unshift(_, _)
Unshift(rows, n) == IF n = 0 THEN rows ELSE Unshift(<<EmptyRow>> \o rows, n - 1)

RECURSIVE FilterRows(_, _, _)
FilterRows(matrix, index, completedRowSet) ==
    IF index >= Len(matrix) THEN <<>>
    ELSE (IF index \in completedRowSet THEN <<>> ELSE <<matrix[index + 1]>>)
         \o FilterRows(matrix, index + 1, completedRowSet)

removeCompletedRows(matrix, completedRows) ==
    LET completedRowSet == {completedRows[i] : i \in 1..Len(completedRows)}
        numCleared == Len(completedRows)
        remainingRows == FilterRows(matrix, 0, completedRowSet)
    IN  Unshift(remainingRows, numCleared)

\* Array.from({ length: FIELD_TOTAL_HEIGHT }, (_, i) => i): the rows
\* checkAndClearLines() scans when it is given no affectedRows
AllRows == [i \in 1..FIELD_TOTAL_HEIGHT |-> i - 1]

\* rowsToCheck is affectedRows, or every row index when it is not given.
checkAndClearLines(matrix, rowsToCheck) ==
    LET completedRows == SelectSeq(rowsToCheck, LAMBDA rowIndex : isRowComplete(matrix, rowIndex))
    IN  IF Len(completedRows) = 0
        THEN [matrix |-> matrix, linesCleared |-> 0, clearedRows |-> <<>>]
        ELSE [matrix |-> removeCompletedRows(matrix, completedRows),
              linesCleared |-> Len(completedRows), clearedRows |-> completedRows]

(***************************************************************************)
(* controller/ScoringSystem.ts                                             *)
(***************************************************************************)
BASE_SCORES == <<100, 300, 500, 800>>

\* A calculateScore() that pays every line the price of a single.
calculateScorePerLine(linesCleared, level) ==
    IF linesCleared < 1 \/ linesCleared > 4 THEN 0 ELSE BASE_SCORES[1] * linesCleared * level

calculateScore(linesCleared, level) ==
    IF linesCleared < 1 \/ linesCleared > 4 THEN 0 ELSE BASE_SCORES[linesCleared] * level

calculateSoftDropBonus(cells) == cells

calculateHardDropBonus(cells) == cells * 2

(***************************************************************************)
(* controller/LevelSystem.ts (startLevel 1, linesPerLevel 10, maxLevel 20) *)
(***************************************************************************)
StartLevel == 1
LinesPerLevel == 10
MaxLevel == 20

Min(a, b) == IF a < b THEN a ELSE b

calculateLevel(ls) == StartLevel + (ls.totalLinesCleared \div LinesPerLevel)

\* A checkLevelUp() that forgets the maximum level.
checkLevelUpUncapped(ls) ==
    IF calculateLevel(ls) > ls.level
    THEN [levelSystem |-> [ls EXCEPT !.level = calculateLevel(ls)], leveledUp |-> TRUE]
    ELSE [levelSystem |-> ls, leveledUp |-> FALSE]

\* checkLevelUp(): the level system after the call and the value returned
checkLevelUp(ls) ==
    LET newLevel == calculateLevel(ls)
    IN  IF newLevel > ls.level /\ ls.level < MaxLevel
        THEN [levelSystem |-> [ls EXCEPT !.level = Min(newLevel, MaxLevel)], leveledUp |-> TRUE]
        ELSE [levelSystem |-> ls, leveledUp |-> FALSE]

addLines(ls, count) == checkLevelUp([ls EXCEPT !.totalLinesCleared = @ + count])

(***************************************************************************)
(* controller/GravitySystem.ts.  timerId is "null" or "interval" (a        *)
(* setInterval handle) and timerInterval is the interval that handle was   *)
(* created with, 0 when there is none.                                     *)
(***************************************************************************)
\* G in millionths of a cell per frame
GRAVITY_TABLE ==
    <<16670, 21017, 26977, 35256, 46930, 63610, 87900, 123600, 177500, 259800,
      388000, 590000, 920000, 1420000, 2360000, 3910000, 6610000, 11000000,
      18720000, 20000000>>

\* 1000 / (g * 60) milliseconds, in hundredths of a millisecond, rounded down
calculateInterval(level) ==
    LET g == IF level \in DOMAIN GRAVITY_TABLE THEN GRAVITY_TABLE[level] ELSE GRAVITY_TABLE[1]
    IN  (((1000 * 1000000) \div 60) * 100) \div g

GravityStart(g) ==
    IF g.timerId # "null" \/ g.isPaused THEN g
    ELSE [g EXCEPT !.timerId = "interval", !.timerInterval = g.interval]

GravityStop(g) == [g EXCEPT !.timerId = "null", !.timerInterval = 0, !.isPaused = FALSE]

GravityPause(g) == [g EXCEPT !.isPaused = TRUE]

GravityResume(g) == [g EXCEPT !.isPaused = FALSE]

\* A setLevel() that keeps the interval of the level before.
GravitySetLevelKeepingInterval(g, level) ==
    IF g.timerId # "null" THEN GravityStart(GravityStop([g EXCEPT !.level = level]))
    ELSE [g EXCEPT !.level = level]

GravitySetLevel(g, level) ==
    LET g1 == [g EXCEPT !.level = level, !.interval = calculateInterval(level)]
    IN  IF g1.timerId # "null" THEN GravityStart(GravityStop(g1)) ELSE g1

(***************************************************************************)
(* Values returned by the controller's methods.  A call that ends in an    *)
(* uncaught TypeError returns Thrown.                                      *)
(***************************************************************************)
RetBool(b) == [kind |-> "boolean", val |-> IF b THEN 1 ELSE 0]
RetNum(n) == [kind |-> "number", val |-> n]
RetVoid == [kind |-> "void", val |-> 0]
Thrown == [kind |-> "TypeError", val |-> 0]

(***************************************************************************)
(* controller/LockDelaySystem.ts.  timerId is "null", "pending" (a timeout *)
(* that has neither fired nor been cleared) or "fired"; timeLeft is the    *)
(* time in ms until the pending timeout fires.                             *)
(***************************************************************************)
MoveReset == "moveReset"
Infinity == "infinity"
StepReset == "stepReset"
\* maxMoves and the default delayDuration
maxMoves == 15
delayDuration == 500

scheduleTimer(ld) == [ld EXCEPT !.timerId = "pending", !.timeLeft = delayDuration]

cancelTimer(ld) ==
    IF ld.timerId # "null" THEN [ld EXCEPT !.timerId = "null", !.timeLeft = 0] ELSE ld

LockDelayStart(ld) ==
    IF ld.isActive THEN ld
    ELSE scheduleTimer([ld EXCEPT !.isActive = TRUE, !.moveCount = 0])

\* A cancel() that leaves the timer pending.
cancelKeepingTimer(ld) == [ld EXCEPT !.isActive = FALSE, !.moveCount = 0]

cancel(ld) == [cancelTimer(ld) EXCEPT !.isActive = FALSE, !.moveCount = 0]

LockDelayStop(ld) == cancel(ld)

setMode(ld, mode) == [ld EXCEPT !.mode = mode]

(***************************************************************************)
(* controller/GameController.ts.  c is the controller: its GameState and   *)
(* the systems it owns; c.ret is the value of the call just made and       *)
(* c.draws counts the calls of pieceBag.next().                            *)
(***************************************************************************)
SPAWN_POSITIONS ==
    [t \in TetrominoType |-> IF t = "O" THEN [x |-> 4, y |-> 21] ELSE [x |-> 3, y |-> 21]]

EmptyMatrix == [y \in 1..FIELD_TOTAL_HEIGHT |-> EmptyRow]

createInitialState ==
    [matrix |-> EmptyMatrix, activePiece |-> NullPiece, score |-> 0, level |-> 1,
     linesCleared |-> 0, status |-> Playing, isGameOver |-> FALSE]

\* new GameController(seed)
NewGameController(seed) ==
    [state |-> createInitialState,
     pieceBag |-> NewPieceBag(seed),
     lockDelaySystem |-> [mode |-> MoveReset, timerId |-> "null", timeLeft |-> 0,
                          moveCount |-> 0, isActive |-> FALSE],
     gravitySystem |-> [level |-> 1, interval |-> calculateInterval(1), timerId |-> "null",
                        timerInterval |-> 0, isPaused |-> FALSE],
     scoringSystem |-> [score |-> 0],
     levelSystem |-> [level |-> StartLevel, totalLinesCleared |-> 0],
     isSoftDropping |-> FALSE,
     draws |-> 0,
     ret |-> RetVoid]

\* A triggerGameOver() that forgets to stop the two timers.
triggerGameOverKeepingTimers(c) ==
    [c EXCEPT !.state.status = GameOver, !.state.isGameOver = TRUE]

triggerGameOver(c) ==
    [c EXCEPT !.state.status = GameOver,
              !.state.isGameOver = TRUE,
              !.gravitySystem = GravityStop(@),
              !.lockDelaySystem = LockDelayStop(@)]

checkOverlap(piece, matrix) == checkCollision(piece, matrix, piece.position, piece.rotation)

\* spawnNextPiece() once this.pieceBag.next() has returned n.  For a type
\* that is undefined SPAWN_POSITIONS[type] is undefined, and spawnPos.x is a
\* TypeError.
SpawnDrawn(c, n) ==
    LET type == n.value
        spawnPos == SPAWN_POSITIONS[type]
        newPiece == Piece(type, spawnPos.x, spawnPos.y, 0)
        c1 == [c EXCEPT !.pieceBag = n.pieceBag, !.draws = @ + 1]
    IN  IF type = Undefined THEN [c1 EXCEPT !.ret = Thrown]
        ELSE IF checkOverlap(newPiece, c1.state.matrix)
        THEN [triggerGameOver(c1) EXCEPT !.ret = RetBool(FALSE)]
        ELSE [c1 EXCEPT !.state.activePiece = [newPiece EXCEPT !.position.y = @ + 1],
                        !.ret = RetBool(TRUE)]

\* A spawnNextPiece() that places the drawn piece without the overlap test.
spawnNextPieceUnchecked(c) ==
    IF c.state.status = GameOver THEN [c EXCEPT !.ret = RetBool(FALSE)]
    ELSE [c EXCEPT !.pieceBag = PieceBagNext(c.pieceBag).pieceBag,
                   !.draws = @ + 1,
                   !.state.activePiece =
                       Piece(PieceBagNext(c.pieceBag).value,
                             SPAWN_POSITIONS[PieceBagNext(c.pieceBag).value].x,
                             SPAWN_POSITIONS[PieceBagNext(c.pieceBag).value].y + 1, 0),
                   !.ret = RetBool(TRUE)]

spawnNextPiece(c) ==
    IF c.state.status = GameOver THEN [c EXCEPT !.ret = RetBool(FALSE)]
    ELSE SpawnDrawn(c, PieceBagNext(c.pieceBag))

\* An isLockOut() that asks for the whole piece to be above the visible rows.
isLockOutWholePiece(piece) ==
    \A yx \in Minos[piece.type][piece.rotation] :
        piece.position.y + yx[1] < FIELD_TOTAL_HEIGHT - FIELD_VISIBLE_HEIGHT

isLockOut(piece) ==
    LET visibleStartRow == FIELD_TOTAL_HEIGHT - FIELD_VISIBLE_HEIGHT
    IN  \E yx \in Minos[piece.type][piece.rotation] : piece.position.y + yx[1] < visibleStartRow

isBlockOut == FALSE

\* The loop of lockPiece that transfers the minos to the matrix.
TransferMinos(matrix, piece) ==
    [fy \in 1..Len(matrix) |->
        [fx \in 1..Len(matrix[fy]) |->
            IF /\ <<fy - 1 - piece.position.y, fx - 1 - piece.position.x>>
                      \in Minos[piece.type][piece.rotation]
               /\ fx - 1 >= 0 /\ fx - 1 < FIELD_WIDTH
               /\ fy - 1 >= 0 /\ fy - 1 < FIELD_TOTAL_HEIGHT
            THEN piece.type
            ELSE matrix[fy][fx]]]

\* lockPiece() once spawnNextPiece() has returned, leaving the controller as c3
LockSpawned(c3) ==
    IF c3.ret = Thrown THEN c3
    ELSE IF c3.ret = RetBool(TRUE)
    THEN [c3 EXCEPT !.gravitySystem = GravityStart(@), !.ret = RetVoid]
    ELSE [c3 EXCEPT !.ret = RetVoid]

\* A lockPiece() that shows the points of the last clear as the score.
LockClearedShowingPoints(c1, clearResult) ==
    LET points == calculateScore(clearResult.linesCleared, c1.state.level)
        lv == addLines(c1.levelSystem, clearResult.linesCleared)
        c2a == [c1 EXCEPT !.state.matrix = clearResult.matrix,
                          !.scoringSystem.score = @ + points,
                          !.state.score = points,
                          !.state.linesCleared = @ + clearResult.linesCleared,
                          !.levelSystem = lv.levelSystem]
        c2 == IF clearResult.linesCleared > 0
              THEN IF lv.leveledUp
                   THEN [c2a EXCEPT !.state.level = lv.levelSystem.level,
                                    !.gravitySystem =
                                        GravitySetLevel(@, lv.levelSystem.level)]
                   ELSE c2a
              ELSE c1
    IN  LockSpawned(spawnNextPiece(c2))

\* lockPiece() once checkAndClearLines() has returned clearResult
LockCleared(c1, clearResult) ==
    LET points == calculateScore(clearResult.linesCleared, c1.state.level)
        lv == addLines(c1.levelSystem, clearResult.linesCleared)
        c2a == [c1 EXCEPT !.state.matrix = clearResult.matrix,
                          !.scoringSystem.score = @ + points,
                          !.state.score = c1.scoringSystem.score + points,
                          !.state.linesCleared = @ + clearResult.linesCleared,
                          !.levelSystem = lv.levelSystem]
        c2 == IF clearResult.linesCleared > 0
              THEN IF lv.leveledUp
                   THEN [c2a EXCEPT !.state.level = lv.levelSystem.level,
                                    !.gravitySystem =
                                        GravitySetLevel(@, lv.levelSystem.level)]
                   ELSE c2a
              ELSE c1
    IN  LockSpawned(spawnNextPiece(c2))

\* lockPiece() once the minos of piece are in the matrix of c1
LockTransferred(c1, piece) ==
    IF isBlockOut THEN [triggerGameOver(c1) EXCEPT !.ret = RetVoid]
    ELSE LockCleared(c1, checkAndClearLines(c1.state.matrix,
                                            getAffectedRows(piece.position.y, 4)))

lockPiece(c) ==
    IF c.state.activePiece = NullPiece THEN [c EXCEPT !.ret = RetVoid]
    ELSE IF isLockOut(c.state.activePiece) THEN [triggerGameOver(c) EXCEPT !.ret = RetVoid]
    ELSE LockTransferred([c EXCEPT !.state.matrix = TransferMinos(@, c.state.activePiece),
                                   !.state.activePiece = NullPiece],
                         c.state.activePiece)

\* LockDelaySystem.forceLock(): the callback is () => this.lockPiece()
forceLock(c) == lockPiece([c EXCEPT !.lockDelaySystem = cancel(@)])

\* A reset() that forces the lock one move early.
LockDelayResetForcingEarly(c, isDownwardMovement) ==
    LET ld == c.lockDelaySystem
    IN  IF ~ld.isActive THEN c
        ELSE LET counted == IF ld.mode = MoveReset THEN [ld EXCEPT !.moveCount = @ + 1] ELSE ld
                 c1 == [c EXCEPT !.lockDelaySystem = counted]
             IN  IF ld.mode = MoveReset /\ counted.moveCount >= maxMoves - 1 THEN forceLock(c1)
                 ELSE IF \/ ld.mode = Infinity
                         \/ ld.mode = MoveReset
                         \/ (ld.mode = StepReset /\ isDownwardMovement)
                      THEN [c1 EXCEPT !.lockDelaySystem = scheduleTimer(cancelTimer(@))]
                      ELSE c1

\* A reset() that restarts the timer in every mode, whatever the movement.
LockDelayResetRestartingAlways(c, isDownwardMovement) ==
    LET ld == c.lockDelaySystem
    IN  IF ~ld.isActive THEN c
        ELSE LET counted == IF ld.mode = MoveReset THEN [ld EXCEPT !.moveCount = @ + 1] ELSE ld
                 c1 == [c EXCEPT !.lockDelaySystem = counted]
             IN  IF ld.mode = MoveReset /\ counted.moveCount >= maxMoves THEN forceLock(c1)
                 ELSE [c1 EXCEPT !.lockDelaySystem = scheduleTimer(cancelTimer(@))]

\* A reset() that counts the moves in every mode.
LockDelayResetCountingAlways(c, isDownwardMovement) ==
    LET ld == c.lockDelaySystem
    IN  IF ~ld.isActive THEN c
        ELSE LET counted == [ld EXCEPT !.moveCount = @ + 1]
                 c1 == [c EXCEPT !.lockDelaySystem = counted]
             IN  IF counted.moveCount >= maxMoves THEN forceLock(c1)
                 ELSE IF \/ ld.mode = Infinity
                         \/ ld.mode = MoveReset
                         \/ (ld.mode = StepReset /\ isDownwardMovement)
                      THEN [c1 EXCEPT !.lockDelaySystem = scheduleTimer(cancelTimer(@))]
                      ELSE c1

\* LockDelaySystem.reset(isDownwardMovement)
LockDelayReset(c, isDownwardMovement) ==
    LET ld == c.lockDelaySystem
    IN  IF ~ld.isActive THEN c
        ELSE LET counted == IF ld.mode = MoveReset THEN [ld EXCEPT !.moveCount = @ + 1] ELSE ld
                 c1 == [c EXCEPT !.lockDelaySystem = counted]
             IN  IF ld.mode = MoveReset /\ counted.moveCount >= maxMoves THEN forceLock(c1)
                 ELSE IF \/ ld.mode = Infinity
                         \/ ld.mode = MoveReset
                         \/ (ld.mode = StepReset /\ isDownwardMovement)
                      THEN [c1 EXCEPT !.lockDelaySystem = scheduleTimer(cancelTimer(@))]
                      ELSE c1

\* The timeout callback installed by LockDelaySystem.scheduleTimer()
LockTimerCallback(c) ==
    lockPiece([c EXCEPT !.lockDelaySystem.isActive = FALSE,
                        !.lockDelaySystem.moveCount = 0,
                        !.lockDelaySystem.timerId = "fired",
                        !.lockDelaySystem.timeLeft = 0])

Landed(c) ==
    [c EXCEPT !.gravitySystem = GravityStop(@), !.lockDelaySystem = LockDelayStart(@)]

\* moveDown() after the reset of the lock delay: the check whether the piece
\* has landed.  canMoveDown reads piece.position: a TypeError when the piece
\* is null.
MoveDownLanding(c3) ==
    IF c3.state.activePiece = NullPiece THEN [c3 EXCEPT !.ret = Thrown]
    ELSE IF ~canMoveDown(c3.state.activePiece, c3.state.matrix)
    THEN [Landed(c3) EXCEPT !.ret = RetBool(TRUE)]
    ELSE [c3 EXCEPT !.ret = RetBool(TRUE)]

moveDown(c) ==
    IF c.state.activePiece = NullPiece \/ c.state.status # Playing
    THEN [c EXCEPT !.ret = RetBool(FALSE)]
    ELSE IF ~canMoveDown(c.state.activePiece, c.state.matrix)
    THEN [Landed(c) EXCEPT !.ret = RetBool(FALSE)]
    ELSE LET c1 == [c EXCEPT !.state.activePiece.position.y = @ + 1]
             c2 == IF c.isSoftDropping
                   THEN [c1 EXCEPT !.scoringSystem.score = @ + calculateSoftDropBonus(1),
                                   !.state.score =
                                       c.scoringSystem.score + calculateSoftDropBonus(1)]
                   ELSE c1
         IN  MoveDownLanding(IF c.lockDelaySystem.isActive
                             THEN LockDelayReset(c2, TRUE)
                             ELSE c2)

\* A moveLeft() that forgets to test the status.
moveLeftWhateverStatus(c) ==
    IF c.state.activePiece = NullPiece
    THEN [c EXCEPT !.ret = RetBool(FALSE)]
    ELSE IF ~canMoveLeft(c.state.activePiece, c.state.matrix)
    THEN [c EXCEPT !.ret = RetBool(FALSE)]
    ELSE [c EXCEPT !.state.activePiece.position.x = @ - 1, !.ret = RetBool(TRUE)]

moveLeft(c) ==
    IF c.state.activePiece = NullPiece \/ c.state.status # Playing
    THEN [c EXCEPT !.ret = RetBool(FALSE)]
    ELSE IF ~canMoveLeft(c.state.activePiece, c.state.matrix)
    THEN [c EXCEPT !.ret = RetBool(FALSE)]
    ELSE LET c1 == [c EXCEPT !.state.activePiece.position.x = @ - 1]
             c2 == IF c1.lockDelaySystem.isActive THEN LockDelayReset(c1, FALSE) ELSE c1
         IN  [c2 EXCEPT !.ret = RetBool(TRUE)]

moveRight(c) ==
    IF c.state.activePiece = NullPiece \/ c.state.status # Playing
    THEN [c EXCEPT !.ret = RetBool(FALSE)]
    ELSE IF ~canMoveRight(c.state.activePiece, c.state.matrix)
    THEN [c EXCEPT !.ret = RetBool(FALSE)]
    ELSE LET c1 == [c EXCEPT !.state.activePiece.position.x = @ + 1]
             c2 == IF c1.lockDelaySystem.isActive THEN LockDelayReset(c1, FALSE) ELSE c1
         IN  [c2 EXCEPT !.ret = RetBool(TRUE)]

softDropStart(c) ==
    IF c.state.activePiece = NullPiece \/ c.state.status # Playing
    THEN [c EXCEPT !.ret = RetVoid]
    ELSE [moveDown([c EXCEPT !.isSoftDropping = TRUE]) EXCEPT
              !.ret = IF @ = Thrown THEN Thrown ELSE RetVoid]

softDropEnd(c) == [c EXCEPT !.isSoftDropping = FALSE, !.ret = RetVoid]

\* while (this.moveDown()) { dropDistance++; }
RECURSIVE DropLoop(_)
\* The loop after a call of moveDown() that left the controller as c1.
DropLoopTest(c1) == IF c1.ret = RetBool(TRUE) THEN DropLoop(c1) ELSE c1

DropLoop(c) == DropLoopTest(moveDown(c))

\* hardDrop() after the loop, which left the controller as c1
HardDropLock(c1, startY) ==
    IF c1.ret = Thrown THEN c1
    \* this.state.activePiece.position.y
    ELSE IF c1.state.activePiece = NullPiece THEN [c1 EXCEPT !.ret = Thrown]
    ELSE LET finalY == c1.state.activePiece.position.y
             dropDistance == finalY - startY
             c2 == IF dropDistance > 0
                   THEN [c1 EXCEPT
                           !.scoringSystem.score = @ + calculateHardDropBonus(dropDistance),
                           !.state.score = c1.scoringSystem.score
                               + calculateHardDropBonus(dropDistance)]
                   ELSE c1
             c3 == lockPiece([c2 EXCEPT !.lockDelaySystem = LockDelayStop(@),
                                        !.gravitySystem = GravityStop(@)])
         IN  IF c3.ret = Thrown THEN c3 ELSE [c3 EXCEPT !.ret = RetNum(dropDistance)]

hardDrop(c) ==
    IF c.state.activePiece = NullPiece \/ c.state.status # Playing
    THEN [c EXCEPT !.ret = RetNum(0)]
    ELSE HardDropLock(DropLoop(c), c.state.activePiece.position.y)

\* A Rotated() that resets the lock delay whether or not the rotation succeeded.
RotatedResettingLockDelay(c, result) ==
    LET c1 == IF result.success /\ result.piece # NullPiece
              THEN [c EXCEPT !.state.activePiece = result.piece] ELSE c
        c2 == IF c1.lockDelaySystem.isActive THEN LockDelayReset(c1, FALSE) ELSE c1
    IN  [c2 EXCEPT !.ret = RetBool(result.success /\ result.piece # NullPiece)]

Rotated(c, result) ==
    IF result.success /\ result.piece # NullPiece
    THEN LET c1 == [c EXCEPT !.state.activePiece = result.piece]
             c2 == IF c1.lockDelaySystem.isActive THEN LockDelayReset(c1, FALSE) ELSE c1
         IN  [c2 EXCEPT !.ret = RetBool(TRUE)]
    ELSE [c EXCEPT !.ret = RetBool(FALSE)]

rotateClockwise(c) ==
    IF c.state.activePiece = NullPiece \/ c.state.status # Playing
    THEN [c EXCEPT !.ret = RetBool(FALSE)]
    ELSE Rotated(c, rotate(c.state.activePiece, "clockwise", c.state.matrix))

rotateCounterclockwise(c) ==
    IF c.state.activePiece = NullPiece \/ c.state.status # Playing
    THEN [c EXCEPT !.ret = RetBool(FALSE)]
    ELSE Rotated(c, rotate(c.state.activePiece, "counterclockwise", c.state.matrix))

\* The loops of startGame that clear the matrix in place.
ClearMatrix(matrix) ==
    [y \in 1..Len(matrix) |->
        IF y - 1 < FIELD_TOTAL_HEIGHT
        THEN [x \in 1..Len(matrix[y]) |-> IF x - 1 < FIELD_WIDTH THEN NullCell ELSE matrix[y][x]]
        ELSE matrix[y]]

\* A startGame() that leaves the lock delay as it finds it.
startGameKeepingLockDelay(c) ==
    LET c1 == [c EXCEPT !.gravitySystem = GravityStop(@)]
        c2 == [c1 EXCEPT !.state.matrix = ClearMatrix(@),
                         !.scoringSystem.score = 0,
                         !.levelSystem = [level |-> StartLevel, totalLinesCleared |-> 0],
                         !.state.activePiece = NullPiece,
                         !.state.score = 0,
                         !.state.level = 1,
                         !.state.linesCleared = 0,
                         !.state.status = Playing,
                         !.state.isGameOver = FALSE]
        c3 == [c2 EXCEPT !.gravitySystem = GravitySetLevel(@, c2.state.level)]
        c4 == spawnNextPiece(c3)
    IN  IF c4.ret = Thrown THEN c4
        ELSE [c4 EXCEPT !.gravitySystem = GravityStart(@), !.ret = RetVoid]

startGame(c) ==
    LET c1 == [c EXCEPT !.gravitySystem = GravityStop(@),
                        !.lockDelaySystem = LockDelayStop(@)]
        c2 == [c1 EXCEPT !.state.matrix = ClearMatrix(@),
                         !.scoringSystem.score = 0,
                         !.levelSystem = [level |-> StartLevel, totalLinesCleared |-> 0],
                         !.state.activePiece = NullPiece,
                         !.state.score = 0,
                         !.state.level = 1,
                         !.state.linesCleared = 0,
                         !.state.status = Playing,
                         !.state.isGameOver = FALSE]
        c3 == [c2 EXCEPT !.gravitySystem = GravitySetLevel(@, c2.state.level)]
        c4 == spawnNextPiece(c3)
    IN  IF c4.ret = Thrown THEN c4
        ELSE [c4 EXCEPT !.gravitySystem = GravityStart(@), !.ret = RetVoid]

\* A pause() that forgets to test the status.
pauseWhateverStatus(c) ==
    [c EXCEPT !.state.status = Paused, !.gravitySystem = GravityPause(@), !.ret = RetVoid]

pause(c) ==
    IF c.state.status = Playing
    THEN [c EXCEPT !.state.status = Paused, !.gravitySystem = GravityPause(@), !.ret = RetVoid]
    ELSE [c EXCEPT !.ret = RetVoid]

resume(c) ==
    IF c.state.status = Paused
    THEN [c EXCEPT !.state.status = Playing, !.gravitySystem = GravityResume(@), !.ret = RetVoid]
    ELSE [c EXCEPT !.ret = RetVoid]

\* The setInterval callback of GravitySystem.start(): () => this.moveDown()
GravityTimerCallback(c) == IF ~c.gravitySystem.isPaused THEN moveDown(c) ELSE c

(***************************************************************************)
(* The state machine.  The variables are the fields of the controller;     *)
(* lastOp names the operation or callback that ran last and ret is what it *)
(* returned.                                                               *)
(***************************************************************************)
VARIABLES state, pieceBag, lockDelaySystem, gravitySystem, scoringSystem, levelSystem,
          isSoftDropping, draws, lastOp, ret

vars == <<state, pieceBag, lockDelaySystem, gravitySystem, scoringSystem, levelSystem,
          isSoftDropping, draws, lastOp, ret>>

\* The controller as the record the methods work on.
Cur ==
    [state |-> state, pieceBag |-> pieceBag, lockDelaySystem |-> lockDelaySystem,
     gravitySystem |-> gravitySystem, scoringSystem |-> scoringSystem,
     levelSystem |-> levelSystem, isSoftDropping |-> isSoftDropping,
     draws |-> draws, ret |-> ret]

\* The step that runs operation op and leaves the controller as c.
Becomes(op, result) ==
    \E c \in {result} :
        /\ c.draws <= MaxDraws
        /\ state' = c.state
        /\ pieceBag' = c.pieceBag
        /\ lockDelaySystem' = c.lockDelaySystem
        /\ gravitySystem' = c.gravitySystem
        /\ scoringSystem' = c.scoringSystem
        /\ levelSystem' = c.levelSystem
        /\ isSoftDropping' = c.isSoftDropping
        /\ draws' = c.draws
        /\ ret' = c.ret
        /\ lastOp' = op

Init ==
    \E seed \in Seeds :
        LET c == NewGameController(seed)
        IN  /\ state = c.state
            /\ pieceBag = c.pieceBag
            /\ lockDelaySystem = c.lockDelaySystem
            /\ gravitySystem = c.gravitySystem
            /\ scoringSystem = c.scoringSystem
            /\ levelSystem = c.levelSystem
            /\ isSoftDropping = c.isSoftDropping
            /\ draws = c.draws
            /\ ret = c.ret
            /\ lastOp = "constructor"

\* The player steers only the piece drawn after the first BuildPieces ones,
\* and tries every intent on a game that is over.
InputOpen == draws = BuildPieces + 1 \/ state.status = GameOver

\* The piece of c is at most MaxFall rows below the row pieces are spawned in.
Shallow(c) ==
    \/ c.state.activePiece = NullPiece
    \/ c.state.activePiece.position.y <= SPAWN_POSITIONS["T"].y + 1 + MaxFall

\* A step that moves the piece down one row.
Descends(op, result) == \E c \in {result} : Shallow(c) /\ Becomes(op, c)

StartGame == (draws = 0 \/ InputOpen) /\ Becomes("startGame", startGame(Cur))

SpawnNextPiece == (draws = 0 \/ InputOpen) /\ Becomes("spawnNextPiece", spawnNextPiece(Cur))

MoveLeft == InputOpen /\ Becomes("moveLeft", moveLeft(Cur))

MoveRight == InputOpen /\ Becomes("moveRight", moveRight(Cur))

MoveDown == InputOpen /\ Descends("moveDown", moveDown(Cur))

SoftDropStart == InputOpen /\ Descends("softDropStart", softDropStart(Cur))

SoftDropEnd == InputOpen /\ Becomes("softDropEnd", softDropEnd(Cur))

HardDrop == draws <= MaxDraws /\ Becomes("hardDrop", hardDrop(Cur))

RotateClockwise == InputOpen /\ Becomes("rotateClockwise", rotateClockwise(Cur))

RotateCounterclockwise ==
    InputOpen /\ Becomes("rotateCounterclockwise", rotateCounterclockwise(Cur))

Pause == InputOpen /\ Becomes("pause", pause(Cur))

Resume == InputOpen /\ Becomes("resume", resume(Cur))

\* A tick of the gravity interval.  The pieces the player hard-drops are
\* dropped before the first tick.
GravityTick ==
    /\ InputOpen
    /\ gravitySystem.timerId = "interval"
    /\ Descends("gravityTick", GravityTimerCallback(Cur))

\* The lock-delay timeout fires.
LockDelayExpire ==
    /\ lockDelaySystem.timerId = "pending"
    /\ Becomes("lockDelayExpire", LockTimerCallback(Cur))

Next ==
    \/ StartGame
    \/ SpawnNextPiece
    \/ MoveLeft
    \/ MoveRight
    \/ MoveDown
    \/ SoftDropStart
    \/ SoftDropEnd
    \/ HardDrop
    \/ RotateClockwise
    \/ RotateCounterclockwise
    \/ Pause
    \/ Resume
    \/ GravityTick
    \/ LockDelayExpire

Spec == Init /\ [][Next]_vars

\* The game as it is played: spawnNextPiece() is called by the controller
\* only, from startGame() and lockPiece().
GameNext ==
    \/ StartGame
    \/ MoveLeft
    \/ MoveRight
    \/ MoveDown
    \/ SoftDropStart
    \/ SoftDropEnd
    \/ HardDrop
    \/ RotateClockwise
    \/ RotateCounterclockwise
    \/ Pause
    \/ Resume
    \/ GravityTick
    \/ LockDelayExpire

GameSpec == Init /\ [][GameNext]_vars

(***************************************************************************)
(* The controller under a host that writes to the GameState object it gets *)
(* from getState(), as the tests of the controller do: it fills the bottom *)
(* rows of the grid and places the active piece above them.  Score, level  *)
(* and lines cleared are written by the controller only.                   *)
(***************************************************************************)
\* What the host prepares: h bottom rows filled but for the rightmost cell,
\* and an upright I either in the rightmost column, which the filled rows
\* leave open, or on top of the filled rows, in the leftmost column or in a
\* column the spawn positions cover, at rest or one row higher.
HostSetups ==
    {<<h, FIELD_WIDTH - 1, 0>> : h \in 0..4}
        \cup ((15..18) \X {0, 4} \X {0, 1})

\* for (y ...) for (x ...) state.matrix[y][x] = TetrominoType.I, but for the
\* rightmost column, over the h bottom rows of a cleared grid
HostGrid(h) ==
    [y \in 1..FIELD_TOTAL_HEIGHT |->
        IF y - 1 >= FIELD_TOTAL_HEIGHT - h
        THEN [x \in 1..FIELD_WIDTH |-> IF x = FIELD_WIDTH THEN NullCell ELSE "I"]
        ELSE EmptyRow]

\* state.activePiece = an upright I in column col, d rows above the h
\* filled rows
HostPiece(h, col, d) == Piece("I", col - 2, FIELD_TOTAL_HEIGHT - 4 - h - d, 1)

\* The step that runs operation op and leaves the controller as c, however
\* many pieces have been drawn.
HostBecomes(op, result) ==
    \E c \in {result} :
        /\ state' = c.state
        /\ pieceBag' = c.pieceBag
        /\ lockDelaySystem' = c.lockDelaySystem
        /\ gravitySystem' = c.gravitySystem
        /\ scoringSystem' = c.scoringSystem
        /\ levelSystem' = c.levelSystem
        /\ isSoftDropping' = c.isSoftDropping
        /\ draws' = c.draws
        /\ ret' = c.ret
        /\ lastOp' = op

\* The host chooses freely.
HostFree == draws <= FreeDraws

\* The host writes the grid and the piece that has just been spawned.
HostArrange ==
    /\ state.status = Playing
    /\ state.activePiece # NullPiece
    /\ lastOp \in {"startGame", "hardDrop", "lockDelayExpire"}
    /\ state.linesCleared < MaxLines
    /\ \E s \in HostSetups :
          /\ HostFree \/ s = <<4, FIELD_WIDTH - 1, 0>>
          /\ state' = [state EXCEPT !.matrix = HostGrid(s[1]),
                                    !.activePiece = HostPiece(s[1], s[2], s[3])]
          /\ lastOp' = "getState"
          /\ ret' = RetVoid
          /\ UNCHANGED <<pieceBag, lockDelaySystem, gravitySystem, scoringSystem,
                         levelSystem, isSoftDropping, draws>>

\* The piece the host has placed is locked by a hard drop, or by the lock
\* delay once a tick of gravity or a moveDown() finds it at rest.
HostPlaced == lastOp \in {"getState", "moveDown", "gravityTick"}

HostStartGame ==
    /\ \/ draws = 0
       \/ HostFree /\ state.status = GameOver
       \/ draws <= 3 * FreeDraws /\ state.level > StartLevel
    /\ HostBecomes("startGame", startGame(Cur))

HostHardDrop == HostPlaced /\ HostBecomes("hardDrop", hardDrop(Cur))

HostMoveDown == HostFree /\ HostPlaced /\ HostBecomes("moveDown", moveDown(Cur))

HostGravityTick ==
    /\ HostFree
    /\ HostPlaced
    /\ gravitySystem.timerId = "interval"
    /\ HostBecomes("gravityTick", GravityTimerCallback(Cur))

HostLockDelayExpire ==
    /\ lockDelaySystem.timerId = "pending"
    /\ HostBecomes("lockDelayExpire", LockTimerCallback(Cur))

HostNext ==
    \/ HostStartGame
    \/ HostArrange
    \/ HostHardDrop
    \/ HostMoveDown
    \/ HostGravityTick
    \/ HostLockDelayExpire

HostSpec == Init /\ [][HostNext]_vars

(***************************************************************************)
(* The LineClearSystem under a host that takes it from                     *)
(* getLineClearSystem() and calls checkAndClearLines() on the grid of the  *)
(* controller, which it has written through getState(), with the rows it   *)
(* likes.                                                                  *)
(***************************************************************************)
LineRowKinds == {"empty", "full", "left", "right"}

\* A row of a kind: empty, fully occupied, or occupied in its left or its
\* right half.
RowOfKind(kind) ==
    [x \in 1..FIELD_WIDTH |->
        IF kind = "full" THEN "Z"
        ELSE IF kind = "left" /\ 2 * x <= FIELD_WIDTH THEN "T"
        ELSE IF kind = "right" /\ 2 * x > FIELD_WIDTH THEN "J"
        ELSE NullCell]

\* The rows the host writes: the top row and the LineRows bottom rows.
LineRowIndices == {0} \cup ((FIELD_TOTAL_HEIGHT - LineRows)..(FIELD_TOTAL_HEIGHT - 1))

LineGrids ==
    {[y \in 1..FIELD_TOTAL_HEIGHT |->
         IF y - 1 \in LineRowIndices THEN RowOfKind(kinds[y - 1]) ELSE EmptyRow] :
        kinds \in [LineRowIndices -> LineRowKinds]}

\* The affectedRows the host passes: none (a scan of all rows), the rows of a
\* piece, no row, rows out of order, rows outside the grid, rows repeated.
CandidateRows ==
    {AllRows,
     getAffectedRows(FIELD_TOTAL_HEIGHT - 2, 4),
     getAffectedRows(FIELD_TOTAL_HEIGHT - 4, 4),
     getAffectedRows(0, 4),
     <<>>,
     <<FIELD_TOTAL_HEIGHT - 1, FIELD_TOTAL_HEIGHT - 3>>,
     <<-1, FIELD_TOTAL_HEIGHT - 1, FIELD_TOTAL_HEIGHT>>,
     <<FIELD_TOTAL_HEIGHT - 1, FIELD_TOTAL_HEIGHT - 1>>,
     <<FIELD_TOTAL_HEIGHT - 2, FIELD_TOTAL_HEIGHT - 1, FIELD_TOTAL_HEIGHT - 2>>}

\* The LineClearResult returned
RetLineClear(result) ==
    [kind |-> "LineClearResult", val |-> result.linesCleared,
     clearedRows |-> result.clearedRows]

LineInit ==
    \E seed \in Seeds, grid \in LineGrids :
        LET c == NewGameController(seed)
        IN  /\ state = [c.state EXCEPT !.matrix = grid]
            /\ pieceBag = c.pieceBag
            /\ lockDelaySystem = c.lockDelaySystem
            /\ gravitySystem = c.gravitySystem
            /\ scoringSystem = c.scoringSystem
            /\ levelSystem = c.levelSystem
            /\ isSoftDropping = c.isSoftDropping
            /\ draws = c.draws
            /\ ret = c.ret
            /\ lastOp = "getState"

\* checkAndClearLines(matrix, affectedRows) changes the matrix in place.
CheckAndClearLines ==
    \E rowsToCheck \in CandidateRows :
        \E result \in {checkAndClearLines(state.matrix, rowsToCheck)} :
            /\ state' = [state EXCEPT !.matrix = result.matrix]
            /\ ret' = RetLineClear(result)
            /\ lastOp' = "checkAndClearLines"
            /\ UNCHANGED <<pieceBag, lockDelaySystem, gravitySystem, scoringSystem,
                           levelSystem, isSoftDropping, draws>>

LineNext == CheckAndClearLines

LineSpec == LineInit /\ [][LineNext]_vars

(***************************************************************************)
(* The host calls checkCollision() on the CollisionDetector of the         *)
(* controller (getCollisionDetector()), with a grid and a piece it wrote   *)
(* through getState().                                                     *)
(***************************************************************************)
\* The scan that ends at the first set cell of the mask.
checkCollisionFirstMino(shape, matrix, pos, i, reads) ==
    LET first == CHOOSE k \in 0..15 :
                     /\ shape[(k \div 4) + 1][(k % 4) + 1] = 1
                     /\ \A j \in 0..(k - 1) : shape[(j \div 4) + 1][(j % 4) + 1] # 1
        fieldX == pos.x + (first % 4)
        fieldY == pos.y + (first \div 4)
    IN  IF \/ fieldX < 0 \/ fieldX >= FIELD_WIDTH
           \/ fieldY < 0 \/ fieldY >= FIELD_TOTAL_HEIGHT
        THEN [collides |-> TRUE, reads |-> reads]
        ELSE [collides |-> CellAt(matrix, fieldY, fieldX) # NullCell,
              reads |-> reads \cup {<<fieldY, fieldX>>}]

\* The loops of checkCollision() over the 16 cells of the mask, y outside and
\* x inside, from cell i on: the value returned and the grid cells read
\* (matrix[fieldY][fieldX]) before it returns.
RECURSIVE checkCollisionScan(_, _, _, _, _)
checkCollisionScan(shape, matrix, pos, i, reads) ==
    IF i >= 16 THEN [collides |-> FALSE, reads |-> reads]
    ELSE IF shape[(i \div 4) + 1][(i % 4) + 1] # 1
    THEN checkCollisionScan(shape, matrix, pos, i + 1, reads)
    ELSE LET fieldX == pos.x + (i % 4)
             fieldY == pos.y + (i \div 4)
         IN  IF \/ fieldX < 0 \/ fieldX >= FIELD_WIDTH
                \/ fieldY < 0 \/ fieldY >= FIELD_TOTAL_HEIGHT
             THEN [collides |-> TRUE, reads |-> reads]
             ELSE IF CellAt(matrix, fieldY, fieldX) # NullCell
             THEN [collides |-> TRUE, reads |-> reads \cup {<<fieldY, fieldX>>}]
             ELSE checkCollisionScan(shape, matrix, pos, i + 1,
                                     reads \cup {<<fieldY, fieldX>>})

\* checkCollision(piece, matrix, position?, rotation?): an argument left out
\* is <<>>, an argument given is <<value>>.
CollisionDetectorCheckCollision(piece, matrix, position, rotation) ==
    LET pos == IF position = <<>> THEN piece.position ELSE position[1]
        rot == IF rotation # <<>> THEN rotation[1] ELSE piece.rotation
        shape == SHAPES[piece.type][rot + 1]
    IN  checkCollisionScan(shape, matrix, pos, 0, {})

\* How far outside the grid the host places a piece.
CollisionMargin == 2

CollisionColumns ==
    ((0 - CollisionMargin)..0) \cup {3}
        \cup ((FIELD_WIDTH - 4)..(FIELD_WIDTH - 4 + CollisionMargin))

CollisionRows ==
    ((0 - CollisionMargin)..0)
        \cup ((FIELD_TOTAL_HEIGHT - 4)..(FIELD_TOTAL_HEIGHT - 4 + CollisionMargin))

\* The grids the host writes: empty, a stack with an open right column, and
\* cells scattered over the top and the bottom rows.
CollisionGrids ==
    {EmptyMatrix,
     HostGrid(2),
     [y \in 1..FIELD_TOTAL_HEIGHT |->
         [x \in 1..FIELD_WIDTH |->
             IF (y <= 2 \/ y >= FIELD_TOTAL_HEIGHT - 2) /\ (x + y) % 3 = 0
             THEN "S" ELSE NullCell]]}

\* The pieces the host writes: free in the middle of the grid, or across its
\* left edge at the bottom.
CollisionPieces ==
    {Piece(t, p[1], p[2], r) :
        t \in TetrominoType, r \in RotationState,
        p \in {<<3, 20>>, <<-1, FIELD_TOTAL_HEIGHT - 3>>}}

\* The position? and rotation? arguments of a call
CollisionPositions ==
    {<<>>} \cup {<<[x |-> px, y |-> py]>> : px \in CollisionColumns, py \in CollisionRows}

\* The rotation? argument: left out, or the next rotation state clockwise as
\* canRotate() is given it.
CollisionRotations(piece) == {<<>>, <<(piece.rotation + 1) % 4>>}

\* The boolean returned, with the cells read and the arguments of the call
RetCollision(result, position, rotation) ==
    [kind |-> "boolean", val |-> IF result.collides THEN 1 ELSE 0,
     reads |-> result.reads, position |-> position, rotation |-> rotation]

CollisionInit ==
    \E seed \in Seeds, grid \in CollisionGrids, piece \in CollisionPieces :
        LET c == NewGameController(seed)
        IN  /\ state = [c.state EXCEPT !.matrix = grid, !.activePiece = piece]
            /\ pieceBag = c.pieceBag
            /\ lockDelaySystem = c.lockDelaySystem
            /\ gravitySystem = c.gravitySystem
            /\ scoringSystem = c.scoringSystem
            /\ levelSystem = c.levelSystem
            /\ isSoftDropping = c.isSoftDropping
            /\ draws = c.draws
            /\ ret = c.ret
            /\ lastOp = "getState"

\* The host calls checkCollision() on what it wrote; the method assigns to
\* nothing but its locals.
CheckCollision ==
    \E position \in CollisionPositions, rotation \in CollisionRotations(state.activePiece) :
        /\ lastOp = "getState"
        /\ ret' = RetCollision(CollisionDetectorCheckCollision(state.activePiece,
                                   state.matrix, position, rotation),
                               position, rotation)
        /\ lastOp' = "checkCollision"
        /\ UNCHANGED <<state, pieceBag, lockDelaySystem, gravitySystem, scoringSystem,
                       levelSystem, isSoftDropping, draws>>

CollisionNext == CheckCollision

CollisionSpec == CollisionInit /\ [][CollisionNext]_vars

(***************************************************************************)
(* The host writes the grid around the piece through getState() and then   *)
(* steers the piece with the rotation intents and moveDown().              *)
(***************************************************************************)
\* How many cells around the 4 x 4 box of the piece the host fills.
ConfineMargin == 2

\* The pieces the host writes: in the middle of the grid and in its bottom
\* right corner.
RotationPieces ==
    {Piece(t, p[1], p[2], r) :
        t \in TetrominoType, r \in RotationState,
        p \in {<<3, SPAWN_POSITIONS["T"].y - 1>>,
               <<FIELD_WIDTH - 4, FIELD_TOTAL_HEIGHT - 4>>}}

\* The grid whose cells around a piece are all occupied, its own 4 cells
\* left empty.
ConfinedGrid(piece) ==
    [y \in 1..FIELD_TOTAL_HEIGHT |->
        [x \in 1..FIELD_WIDTH |->
            IF /\ y - 1 >= piece.position.y - ConfineMargin
               /\ y - 1 <= piece.position.y + 3 + ConfineMargin
               /\ x - 1 >= piece.position.x - ConfineMargin
               /\ x - 1 <= piece.position.x + 3 + ConfineMargin
               /\ <<y - 1 - piece.position.y, x - 1 - piece.position.x>>
                      \notin Minos[piece.type][piece.rotation]
            THEN "I" ELSE NullCell]]

\* The host writes a piece, and either the empty grid or the grid that
\* confines the piece.
RotationArrange ==
    /\ lastOp = "startGame"
    /\ \E piece \in RotationPieces, confined \in BOOLEAN :
          /\ state' = [state EXCEPT
                          !.matrix = IF confined THEN ConfinedGrid(piece) ELSE EmptyMatrix,
                          !.activePiece = piece]
          /\ lastOp' = "getState"
          /\ ret' = RetVoid
          /\ UNCHANGED <<pieceBag, lockDelaySystem, gravitySystem, scoringSystem,
                         levelSystem, isSoftDropping, draws>>

RotationArranged == lastOp \notin {"constructor", "startGame"}

RotationStartGame == draws = 0 /\ HostBecomes("startGame", startGame(Cur))

\* One moveDown(): the piece the host wrote is found at rest, or falls a row.
RotationMoveDown == lastOp = "getState" /\ HostBecomes("moveDown", moveDown(Cur))

RotationRotateClockwise ==
    RotationArranged /\ HostBecomes("rotateClockwise", rotateClockwise(Cur))

RotationRotateCounterclockwise ==
    RotationArranged /\ HostBecomes("rotateCounterclockwise", rotateCounterclockwise(Cur))

RotationNext ==
    \/ RotationStartGame
    \/ RotationArrange
    \/ RotationMoveDown
    \/ RotationRotateClockwise
    \/ RotationRotateCounterclockwise

RotationSpec == Init /\ [][RotationNext]_vars

(***************************************************************************)
(* The host draws from, looks ahead into and resets the PieceBag of the    *)
(* controller.                                                             *)
(***************************************************************************)
\* The calls of next() the host makes.
MaxBagDraws == 8

\* A seed below zero.
NegativeSeed == 0 - 1000

BagSeeds == Seeds \cup {NegativeSeed}

\* The n of peek(n): within the current bag, into the next bag, and one and
\* eight pieces beyond the next bag.
PeekCounts == {1, 8, 15, 22}

RetPiece(type) == [kind |-> "TetrominoType", val |-> type]

RetPieces(types) == [kind |-> "TetrominoType[]", val |-> types]

\* resetBag(seed?) returns nothing; the argument is kept with it.
RetReset(seed) == [kind |-> "void", val |-> 0, seed |-> seed]

BagInit ==
    \E seed \in BagSeeds :
        LET c == NewGameController(seed)
        IN  /\ state = c.state
            /\ pieceBag = c.pieceBag
            /\ lockDelaySystem = c.lockDelaySystem
            /\ gravitySystem = c.gravitySystem
            /\ scoringSystem = c.scoringSystem
            /\ levelSystem = c.levelSystem
            /\ isSoftDropping = c.isSoftDropping
            /\ draws = c.draws
            /\ ret = c.ret
            /\ lastOp = "constructor"

\* pieceBag.next()
BagNext ==
    /\ draws < MaxBagDraws
    /\ \E n \in {PieceBagNext(pieceBag)} :
          /\ pieceBag' = n.pieceBag
          /\ ret' = RetPiece(n.value)
          /\ draws' = draws + 1
          /\ lastOp' = "next"
          /\ UNCHANGED <<state, lockDelaySystem, gravitySystem, scoringSystem,
                         levelSystem, isSoftDropping>>

\* pieceBag.peek(n), between two calls of next()
BagPeek ==
    /\ lastOp # "peek"
    /\ \E n \in PeekCounts :
          \E p \in {PieceBagPeek(pieceBag, n)} :
              /\ pieceBag' = p.pieceBag
              /\ ret' = RetPieces(p.result)
              /\ lastOp' = "peek"
              /\ UNCHANGED <<state, lockDelaySystem, gravitySystem, scoringSystem,
                             levelSystem, isSoftDropping, draws>>

\* resetBag(seed?), after a call of next()
BagReset ==
    /\ lastOp = "next"
    /\ \E seed \in {<<>>} \cup {<<s>> : s \in BagSeeds} :
          /\ pieceBag' = PieceBagReset(pieceBag, seed)
          /\ ret' = RetReset(seed)
          /\ lastOp' = "resetBag"
          /\ UNCHANGED <<state, lockDelaySystem, gravitySystem, scoringSystem,
                         levelSystem, isSoftDropping, draws>>

BagStep == BagNext \/ BagPeek \/ BagReset

BagSpec == BagInit /\ [][BagStep]_vars

(***************************************************************************)
(* The host calls the LockDelaySystem of a controller whose game has not   *)
(* been started (getLockDelaySystem()), and time passes.  The callback of  *)
(* the system is lockPiece().                                              *)
(***************************************************************************)
LockDelayModes == {MoveReset, Infinity, StepReset}

\* The amounts of time, in ms, that pass between two calls.
TimeSteps == {50, 250}

\* What a call returns, and how many times the lock callback ran in it
RetCallbacks(n) == [kind |-> "void", val |-> 0, callbacks |-> n]

\* The step in which the host ran op on the lock delay system, leaving the
\* controller as c.  The callback runs once when the timeout fires, and once
\* in a reset() that ends the lock delay, which it does through forceLock().
LockBecomes(op, result) ==
    \E c \in {result} :
        /\ state' = c.state
        /\ pieceBag' = c.pieceBag
        /\ lockDelaySystem' = c.lockDelaySystem
        /\ gravitySystem' = c.gravitySystem
        /\ scoringSystem' = c.scoringSystem
        /\ levelSystem' = c.levelSystem
        /\ isSoftDropping' = c.isSoftDropping
        /\ draws' = c.draws
        /\ ret' = RetCallbacks(IF \/ op = "lockDelayExpire"
                                  \/ /\ op \in {"reset(true)", "reset(false)"}
                                     /\ lockDelaySystem.isActive
                                     /\ ~c.lockDelaySystem.isActive
                               THEN 1 ELSE 0)
        /\ lastOp' = op

\* setMode(mode), while no lock delay runs
LockSetMode ==
    /\ ~lockDelaySystem.isActive
    /\ \E mode \in LockDelayModes :
          LockBecomes("setMode", [Cur EXCEPT !.lockDelaySystem = setMode(@, mode)])

LockStart == LockBecomes("start", [Cur EXCEPT !.lockDelaySystem = LockDelayStart(@)])

LockReset ==
    \E isDownwardMovement \in BOOLEAN :
        LockBecomes(IF isDownwardMovement THEN "reset(true)" ELSE "reset(false)",
                    LockDelayReset(Cur, isDownwardMovement))

LockCancel == LockBecomes("cancel", [Cur EXCEPT !.lockDelaySystem = cancel(@)])

LockStop == LockBecomes("stop", [Cur EXCEPT !.lockDelaySystem = LockDelayStop(@)])

\* Time passes, no further than the moment the pending timeout is due.
LockAdvance ==
    /\ lockDelaySystem.timerId = "pending"
    /\ \E dt \in TimeSteps :
          /\ dt <= lockDelaySystem.timeLeft
          /\ lockDelaySystem' = [lockDelaySystem EXCEPT !.timeLeft = @ - dt]
          /\ lastOp' = "advanceTime"
          /\ ret' = RetVoid
          /\ UNCHANGED <<state, pieceBag, gravitySystem, scoringSystem, levelSystem,
                         isSoftDropping, draws>>

\* The pending timeout is due: its callback runs.
LockTimeout ==
    /\ lockDelaySystem.timerId = "pending"
    /\ lockDelaySystem.timeLeft = 0
    /\ LockBecomes("lockDelayExpire", LockTimerCallback(Cur))

LockNext ==
    \/ LockSetMode
    \/ LockStart
    \/ LockReset
    \/ LockCancel
    \/ LockStop
    \/ LockAdvance
    \/ LockTimeout

LockSpec == Init /\ [][LockNext]_vars

(***************************************************************************)
(* The controller of any seed under a host that spawns pieces itself, as   *)
(* the spawn tests of the controller do, starts games and hard-drops.      *)
(***************************************************************************)
\* The draws after which the host stops
MaxSpawns == 9

SpawnCall == draws < MaxSpawns /\ HostBecomes("spawnNextPiece", spawnNextPiece(Cur))

SpawnStartGame == draws < MaxSpawns /\ HostBecomes("startGame", startGame(Cur))

SpawnHardDrop == draws < MaxSpawns /\ HostBecomes("hardDrop", hardDrop(Cur))

SpawnNext ==
    \/ SpawnCall
    \/ SpawnStartGame
    \/ SpawnHardDrop

SpawnSpec == BagInit /\ [][SpawnNext]_vars

(***************************************************************************)
(* The host pauses and resumes the controller, whose game has not been     *)
(* started, and calls the GravitySystem it gets from getGravitySystem();   *)
(* the interval of the gravity clock fires.  The callback of the system is *)
(* moveDown().  The status of the controller is Paused from pause() to     *)
(* resume().                                                               *)
(***************************************************************************)
\* The levels the host passes to setLevel()
ClockLevels == {StartLevel, StartLevel + 1, StartLevel + 2, MaxLevel}

\* The step in which the host ran op, leaving the controller as c after the
\* callback of the gravity clock ran n times.
ClockBecomes(op, result, n) == HostBecomes(op, [result EXCEPT !.ret = RetCallbacks(n)])

ClockStart == ClockBecomes("start", [Cur EXCEPT !.gravitySystem = GravityStart(@)], 0)

ClockStop == ClockBecomes("stop", [Cur EXCEPT !.gravitySystem = GravityStop(@)], 0)

ClockSetLevel ==
    \E level \in ClockLevels :
        ClockBecomes("setLevel", [Cur EXCEPT !.gravitySystem = GravitySetLevel(@, level)], 0)

ClockPause == state.status = Playing /\ ClockBecomes("pause", pause(Cur), 0)

ClockResume == state.status = Paused /\ ClockBecomes("resume", resume(Cur), 0)

\* The interval fires: the function given to setInterval() runs.
ClockFire ==
    /\ gravitySystem.timerId = "interval"
    /\ ClockBecomes("gravityTick", GravityTimerCallback(Cur),
                    IF gravitySystem.isPaused THEN 0 ELSE 1)

ClockNext ==
    \/ ClockStart
    \/ ClockStop
    \/ ClockSetLevel
    \/ ClockPause
    \/ ClockResume
    \/ ClockFire

ClockSpec == Init /\ [][ClockNext]_vars

(***************************************************************************)
(* The game as it is played, up to the moment the player stops: from then  *)
(* on only the two timers act, and a timer that is due fires.  The timer   *)
(* steps made after the player has stopped are named apart in lastOp, and  *)
(* the game is followed until the lock delay has expired once.             *)
(***************************************************************************)
QuietOps == {"idle", "idleGravityTick", "idleLockDelayExpire"}

\* A step of the game while the player is at it.
PlayerNext == lastOp \notin QuietOps /\ GameNext

\* The player resumes a game paused during the play of any piece.
QuietResume ==
    /\ lastOp \notin QuietOps
    /\ state.status = Paused
    /\ HostBecomes("resume", resume(Cur))

\* The player stops, the game running with a piece in play.
Idle ==
    /\ lastOp \notin QuietOps
    /\ state.status = Playing
    /\ state.activePiece # NullPiece
    /\ lastOp' = "idle"
    /\ UNCHANGED <<state, pieceBag, lockDelaySystem, gravitySystem, scoringSystem,
                   levelSystem, isSoftDropping, draws, ret>>

\* A tick of the gravity interval after the player has stopped.
IdleGravityTick ==
    /\ lastOp \in {"idle", "idleGravityTick"}
    /\ gravitySystem.timerId = "interval"
    /\ HostBecomes("idleGravityTick", GravityTimerCallback(Cur))

\* The lock-delay timeout fires after the player has stopped.
IdleLockDelayExpire ==
    /\ lastOp \in {"idle", "idleGravityTick"}
    /\ lockDelaySystem.timerId = "pending"
    /\ HostBecomes("idleLockDelayExpire", LockTimerCallback(Cur))

QuietNext ==
    \/ PlayerNext
    \/ QuietResume
    \/ Idle
    \/ IdleGravityTick
    \/ IdleLockDelayExpire

\* After the player has stopped, the interval of the gravity clock is set or
\* the timeout of the lock delay is pending.
TimerDue ==
    /\ lastOp \in {"idle", "idleGravityTick"}
    /\ gravitySystem.timerId = "interval" \/ lockDelaySystem.timerId = "pending"

\* The step is one of the two timer steps: a timer that is due fires.
TimerFires == TimerDue /\ lastOp' \in {"idleGravityTick", "idleLockDelayExpire"}

\* setInterval and setTimeout: a timer that stays due fires.
QuietSpec == Init /\ [][QuietNext]_vars /\ WF_lastOp(TimerFires)

(***************************************************************************)
(* What the claims speak of.                                               *)
(***************************************************************************)
\* GravitySystem.isRunning(): the interval of the gravity clock is set.
GravityRunning == gravitySystem.timerId # "null"

\* LockDelaySystem.isLockDelayActive()
LockDelayActive == lockDelaySystem.isActive

HasActivePiece == state.activePiece # NullPiece

\* The intents of the player that move, rotate or drop the piece.
MoveIntents == {"moveLeft", "moveRight", "moveDown"}
RotateIntents == {"rotateClockwise", "rotateCounterclockwise"}
DropIntents == {"softDropStart", "hardDrop"}

\* C1: at every instant exactly one of these holds: the gravity clock is
\* running, the lock delay is active, there is no active piece.
C1_ExactlyOneOfClockDelayNoPiece ==
    \/ (GravityRunning /\ ~LockDelayActive /\ HasActivePiece)
    \/ (~GravityRunning /\ LockDelayActive /\ HasActivePiece)
    \/ (~GravityRunning /\ ~LockDelayActive /\ ~HasActivePiece)

\* C2: when the lock delay is active and a successful move or rotation
\* leaves the active piece able to descend one row, the lock delay becomes
\* inactive: its timer is cancelled and its move count is 0.
C2_CancelWhenAbleToDescend ==
    [][(/\ LockDelayActive
        /\ lastOp' \in {"moveLeft", "moveRight"} \cup RotateIntents
        /\ ret' = RetBool(TRUE)
        /\ state'.activePiece # NullPiece
        /\ canMoveDown(state'.activePiece, state'.matrix))
       => (/\ ~lockDelaySystem'.isActive
           /\ lockDelaySystem'.timerId # "pending"
           /\ lockDelaySystem'.moveCount = 0)]_vars

\* C3: as long as the status is Paused, the grid, the active piece, the
\* score, the level and the lines cleared do not change.
C3_PausedFreezesGame ==
    [][(state.status = Paused /\ state'.status = Paused)
       => (/\ state'.matrix = state.matrix
           /\ state'.activePiece = state.activePiece
           /\ state'.score = state.score
           /\ state'.level = state.level
           /\ state'.linesCleared = state.linesCleared)]_vars

\* The piece moved straight down to the lowest row it reaches without
\* colliding.
RECURSIVE Landing(_, _)
Landing(piece, matrix) ==
    IF canMoveDown(piece, matrix)
    THEN Landing([piece EXCEPT !.position.y = @ + 1], matrix)
    ELSE piece

\* The grid once the piece, landed, is locked and the completed rows cleared.
GridAfterLock(piece, matrix) ==
    checkAndClearLines(TransferMinos(matrix, Landing(piece, matrix)),
                       getAffectedRows(Landing(piece, matrix).position.y, 4)).matrix

\* C4: hardDrop, called in Playing with an active piece P, moves P straight
\* down to the lowest non-colliding row and locks P and only P; on return
\* the active piece is the single next piece of the randomizer at its spawn
\* position, or the game is over.
C4_HardDropLocksOnePiece ==
    [][(lastOp' = "hardDrop" /\ state.status = Playing /\ HasActivePiece)
       => (/\ state'.matrix = GridAfterLock(state.activePiece, state.matrix)
           /\ draws' = draws + 1
           /\ \/ state'.status = GameOver
              \/ /\ state'.activePiece # NullPiece
                 /\ state'.activePiece.type = PieceBagNext(pieceBag).value
                 /\ state'.activePiece.rotation = 0
                 /\ state'.activePiece.position.x
                        = SPAWN_POSITIONS[state'.activePiece.type].x
                 /\ state'.activePiece.position.y
                        \in {SPAWN_POSITIONS[state'.activePiece.type].y,
                             SPAWN_POSITIONS[state'.activePiece.type].y + 1})]_vars

\* C5: moveLeft, moveRight, moveDown, softDropStart, hardDrop,
\* rotateClockwise and rotateCounterclockwise never throw.
C5_IntentsNeverThrow ==
    lastOp \in MoveIntents \cup RotateIntents \cup DropIntents => ret # Thrown

\* The grid, the active piece, the score, the level, the lines cleared and
\* the status are after the step what they were before it.
GameUnchanged ==
    /\ state'.matrix = state.matrix
    /\ state'.activePiece = state.activePiece
    /\ state'.score = state.score
    /\ state'.level = state.level
    /\ state'.linesCleared = state.linesCleared
    /\ state'.status = state.status

\* An intent issued while the status is Paused or GameOver or while there is
\* no active piece.
IntentRefused == state.status # Playing \/ ~HasActivePiece

\* The intent op is rejected in the current state.
Rejected(op) ==
    \/ IntentRefused
    \/ op = "moveLeft" /\ ~canMoveLeft(state.activePiece, state.matrix)
    \/ op = "moveRight" /\ ~canMoveRight(state.activePiece, state.matrix)
    \/ op = "moveDown" /\ ~canMoveDown(state.activePiece, state.matrix)
    \/ op = "rotateClockwise"
           /\ ~rotate(state.activePiece, "clockwise", state.matrix).success
    \/ op = "rotateCounterclockwise"
           /\ ~rotate(state.activePiece, "counterclockwise", state.matrix).success

\* C6: a rejected intent (a move into a wall or an occupied cell, a rotation
\* with no valid kick, any move, rotation or drop while the status is Paused
\* or GameOver or there is no active piece) returns false, 0 for hardDrop,
\* and leaves the grid, the active piece, the score, the level, the lines
\* cleared and the status unchanged.
C6_RejectedIntentIsNoOp ==
    [][/\ (lastOp' \in MoveIntents \cup RotateIntents /\ Rejected(lastOp'))
          => (ret' = RetBool(FALSE) /\ GameUnchanged)
       /\ (lastOp' = "hardDrop" /\ IntentRefused)
          => (ret' = RetNum(0) /\ GameUnchanged)
       /\ (lastOp' = "softDropStart" /\ IntentRefused)
          => GameUnchanged]_vars

\* C6 witness: a move into a wall or an occupied cell has been rejected.
C6_Witness ==
    /\ lastOp \in {"moveLeft", "moveRight"}
    /\ ret = RetBool(FALSE)
    /\ state.status = Playing
    /\ HasActivePiece

\* C7: the 4 cells of the active piece are inside the grid and on empty cells.
C7_ActivePieceOnEmptyCells ==
    HasActivePiece => ~checkOverlap(state.activePiece, state.matrix)

\* C8: once the status is GameOver, no intent and no timer callback changes
\* the status, the score, the level, the lines cleared or the grid until
\* startGame() is called.
C8_GameOverIsTerminal ==
    [][(state.status = GameOver /\ lastOp' # "startGame")
       => (/\ state'.status = GameOver
           /\ state'.score = state.score
           /\ state'.level = state.level
           /\ state'.linesCleared = state.linesCleared
           /\ state'.matrix = state.matrix)]_vars

\* C8 witness: a move has been tried on a game that is over.
C8_Witness ==
    /\ state.status = GameOver
    /\ lastOp = "moveLeft"
    /\ ret = RetBool(FALSE)

DrawnPiece ==
    Piece(PieceBagNext(pieceBag).value,
          SPAWN_POSITIONS[PieceBagNext(pieceBag).value].x,
          SPAWN_POSITIONS[PieceBagNext(pieceBag).value].y, 0)

\* spawnNextPiece() is called in a game that is over: it returns false and
\* has no effect.
SpawnInGameOverIsNoOp ==
    (lastOp' = "spawnNextPiece" /\ state.status = GameOver)
        => (/\ ret' = RetBool(FALSE)
            /\ state' = state
            /\ pieceBag' = pieceBag
            /\ lockDelaySystem' = lockDelaySystem
            /\ gravitySystem' = gravitySystem
            /\ scoringSystem' = scoringSystem
            /\ levelSystem' = levelSystem)

\* spawnNextPiece() is called in a game that is not over and a spawn cell of
\* the drawn piece is occupied.
SpawnBlocked ==
    /\ lastOp' = "spawnNextPiece"
    /\ state.status # GameOver
    /\ checkOverlap(DrawnPiece, state.matrix)

\* C10 as stated: if a spawn cell of the drawn piece is occupied,
\* spawnNextPiece returns false, the status becomes GameOver and the active
\* piece is null afterwards; in a game that is over it returns false
\* without effect.
C10_BlockedSpawnLeavesNoPiece ==
    [][/\ SpawnBlocked
          => (/\ ret' = RetBool(FALSE)
              /\ state'.status = GameOver
              /\ state'.activePiece = NullPiece)
       /\ SpawnInGameOverIsNoOp]_vars

\* C10 amended: if a spawn cell of the drawn piece is occupied,
\* spawnNextPiece returns false, the status becomes GameOver and no active
\* piece is created: the active piece is what it was before the call, null
\* when the call comes from lockPiece() or startGame(); in a game that is
\* over it returns false without effect.
C10_BlockedSpawnCreatesNoPiece ==
    [][/\ SpawnBlocked
          => (/\ ret' = RetBool(FALSE)
              /\ state'.status = GameOver
              /\ state'.activePiece = state.activePiece
              /\ state'.matrix = state.matrix)
       /\ SpawnInGameOverIsNoOp]_vars

\* C10 witness: a call of spawnNextPiece() made while a piece was active
\* found a spawn cell occupied and ended the game.
C10_Witness ==
    /\ lastOp = "spawnNextPiece"
    /\ ret = RetBool(FALSE)
    /\ state.status = GameOver
    /\ HasActivePiece
\* The rows the cells of the piece lie in.
PieceRows(piece) == {piece.position.y + yx[1] : yx \in Minos[piece.type][piece.rotation]}

\* The step runs the lock sequence: the lock delay expires, or hardDrop() is
\* called in Playing, while a piece is active.
LockRuns ==
    /\ HasActivePiece
    /\ \/ lastOp' = "lockDelayExpire"
       \/ lastOp' = "hardDrop" /\ state.status = Playing

\* The piece as the lock sequence of the step finds it.
LockedPiece ==
    IF lastOp' = "hardDrop" THEN Landing(state.activePiece, state.matrix)
    ELSE state.activePiece

\* The points hardDrop() awards for the rows descended before it locks.
DropPoints ==
    IF lastOp' = "hardDrop" /\ LockedPiece.position.y > state.activePiece.position.y
    THEN 2 * (LockedPiece.position.y - state.activePiece.position.y)
    ELSE 0

\* The lock sequence ends the game without committing the piece.
LockOutRefuses ==
    /\ state'.status = GameOver
    /\ state'.matrix = state.matrix
    /\ state'.score = state.score + DropPoints
    /\ state'.linesCleared = state.linesCleared
    /\ draws' = draws

\* The lock sequence writes the piece to the grid and clears the lines.
LockCommits == state'.matrix = GridAfterLock(state.activePiece, state.matrix)

\* C11 as stated: when the lock sequence runs and a cell of the piece lies in
\* a row < 20, the status becomes GameOver and the piece is not committed:
\* grid, score and lines cleared are unchanged and no next piece is spawned;
\* when all four cells lie in rows >= 20 the lock commits and the game
\* continues.
C11_LockOutElseGameContinues ==
    [][LockRuns
       => IF \E row \in PieceRows(LockedPiece) : row < 20
          THEN LockOutRefuses
          ELSE LockCommits /\ state'.status = state.status]_vars

\* C11 amended: when a cell of the piece lies in a row < 20 the status
\* becomes GameOver and the piece is not committed; when all four cells lie
\* in rows >= 20 the lock commits and the next piece is drawn, and the game
\* continues unless a spawn cell of that piece is occupied.
C11_LockOutElseCommitAndSpawn ==
    [][LockRuns
       => IF \E row \in PieceRows(LockedPiece) : row < 20
          THEN LockOutRefuses
          ELSE /\ LockCommits
               /\ draws' = draws + 1
               /\ IF checkOverlap(DrawnPiece, state'.matrix)
                  THEN state'.status = GameOver
                  ELSE state'.status = state.status]_vars

\* C11 witness: a lock sequence has ended the game because the piece, which
\* stays where it was, has a cell above row 20 and a cell below it.
C11_Witness ==
    /\ state.status = GameOver
    /\ lastOp \in {"lockDelayExpire", "hardDrop"}
    /\ HasActivePiece
    /\ \E row \in PieceRows(state.activePiece) : row < 20
    /\ \E row \in PieceRows(state.activePiece) : row >= 20
\* The grid cells the piece covers.
PieceCells(piece) ==
    {<<piece.position.y + yx[1], piece.position.x + yx[2]>> :
        yx \in Minos[piece.type][piece.rotation]}

\* The lock sequence of the step commits the piece: no cell of it lies above
\* row 20.
LockCommitRuns == LockRuns /\ \A row \in PieceRows(LockedPiece) : row >= 20

\* The rows that are fully occupied once the cells are written to the grid.
RowsCompletedWith(cells) ==
    {row \in 0..(FIELD_TOTAL_HEIGHT - 1) :
        \A col \in 0..(FIELD_WIDTH - 1) :
            \/ CellAt(state.matrix, row, col) # NullCell
            \/ <<row, col>> \in cells}

\* The numbers of rows the lock of the step completes: a set of one number.
CompletedByLock ==
    {Cardinality(RowsCompletedWith(cells)) : cells \in {PieceCells(LockedPiece)}}

\* The number of occupied cells of a grid.
Occupied(matrix) ==
    Cardinality({yx \in (1..Len(matrix)) \X (1..FIELD_WIDTH) : matrix[yx[1]][yx[2]] # NullCell})

\* The points of the guideline for k lines cleared at once.
LinePoints(k) == IF k = 0 THEN 0 ELSE <<100, 300, 500, 800>>[k]

C13_LevelFollowsLinesCleared ==
    lastOp # "constructor"
        => state.level = IF 1 + (state.linesCleared \div 10) > 20 THEN 20
                         ELSE 1 + (state.linesCleared \div 10)

\* C13 witness: more than 209 lines are cleared and the level is held at 20.
C13_Witness ==
    /\ state.linesCleared >= 210
    /\ state.level = 20
    /\ lastOp = "hardDrop"
\* C14: in every state the level held by the gravity clock is the level of
\* the game state, its interval is the interval of that level, and a running
\* clock ticks at that interval.
C14_GravityClockAtGameLevel ==
    /\ gravitySystem.level = state.level
    /\ gravitySystem.interval = calculateInterval(state.level)
    /\ GravityRunning => gravitySystem.timerInterval = calculateInterval(state.level)

\* C14 witness: the level has gone up to 2 and the gravity clock runs at the
\* interval of level 2 for the piece spawned by the lock.
C14_Witness ==
    /\ state.level = 2
    /\ GravityRunning
    /\ gravitySystem.timerInterval = calculateInterval(2)
    /\ lastOp = "hardDrop"
\* C15: between two calls of startGame, no transition decreases the score,
\* the level or the lines cleared; the score is a non-negative integer and
\* the level is within 1..20.
C15_CountersNeverDecrease ==
    [][/\ lastOp' # "startGame"
          => (/\ state'.score >= state.score
              /\ state'.level >= state.level
              /\ state'.linesCleared >= state.linesCleared)
       /\ state.score \in Nat /\ state'.score \in Nat
       /\ state.level \in 1..20 /\ state'.level \in 1..20]_vars

\* C15 witness: a hard drop has cleared lines and taken the level from 1 to 2.
C15_Witness ==
    /\ lastOp = "hardDrop"
    /\ state.level = 2
    /\ state.linesCleared \in 10..13
    /\ state.score >= 800
\* No row of the grid is fully occupied.
NoRowComplete(matrix) ==
    \A y \in 1..Len(matrix) : \E x \in 1..FIELD_WIDTH : matrix[y][x] = NullCell

C16_GridKeepsDimensions ==
    /\ Len(state.matrix) = 40
    /\ \A y \in 1..Len(state.matrix) : Len(state.matrix[y]) = 10

\* The rows the call of the step has cleared.
ClearedRowSet == {ret'.clearedRows[i] : i \in 1..Len(ret'.clearedRows)}

\* C17: after a set R of complete rows is cleared, every surviving row has
\* the cells it had, the surviving rows are in the order they were in, each
\* is as many rows lower as there were cleared rows beneath it, and the top
\* |R| rows are empty.
C17_CollapseKeepsSurvivingRows ==
    [][lastOp' = "checkAndClearLines"
       => \E R \in {ClearedRowSet} :
              /\ \A row \in R : isRowComplete(state.matrix, row)
              /\ \A row \in 0..(Len(state.matrix) - 1) :
                     row \notin R
                         => /\ row + Cardinality({r \in R : r > row}) < Len(state'.matrix)
                            /\ state'.matrix[row + Cardinality({r \in R : r > row}) + 1]
                                   = state.matrix[row + 1]
              /\ \A row \in 0..(Cardinality(R) - 1) : state'.matrix[row + 1] = EmptyRow]_vars

\* The cells of the grid coordinates a piece covers at a position and a
\* rotation, as <<row, column>>.
CollisionCells(type, pos, rot) ==
    {<<pos.y + yx[1], pos.x + yx[2]>> : yx \in Minos[type][rot]}

InsideGrid(cell) ==
    /\ cell[1] >= 0 /\ cell[1] < FIELD_TOTAL_HEIGHT
    /\ cell[2] >= 0 /\ cell[2] < FIELD_WIDTH

\* What C19 says of a call that returned collides after reading reads.
CollisionSound(piece, matrix, pos, rot, collides, reads) ==
    \E cells \in {CollisionCells(piece.type, pos, rot)} :
        /\ Cardinality(cells) = 4
        /\ collides <=> \E cell \in cells :
                           \/ ~InsideGrid(cell)
                           \/ CellAt(matrix, cell[1], cell[2]) # NullCell
        /\ \A cell \in reads : InsideGrid(cell) /\ cell \in cells
        /\ collides = checkCollision(piece, matrix, pos, rot)

\* C19: for every piece type, rotation, position and grid, checkCollision()
\* returns true if and only if one of the 4 set cells of the mask lies outside
\* columns 0..9 / rows 0..39 or on a cell of the grid that is not empty; every
\* cell it reads is inside the grid; the piece and the grid are as before.
C19_CollisionSound ==
    [][lastOp' = "checkCollision" =>
          /\ CollisionSound(state.activePiece, state.matrix,
                            IF ret'.position = <<>> THEN state.activePiece.position
                            ELSE ret'.position[1],
                            IF ret'.rotation = <<>> THEN state.activePiece.rotation
                            ELSE ret'.rotation[1],
                            ret'.val = 1, ret'.reads)
          /\ state' = state]_vars

\* A call that returns false after reading 4 cells next to occupied cells of
\* the bottom rows, for a position and a rotation given as arguments.
C19_Witness ==
    /\ lastOp = "checkCollision"
    /\ ret.val = 0
    /\ Cardinality(ret.reads) = 4
    /\ ret.position # <<>> /\ ret.rotation # <<>>
    /\ \E cell \in ret.reads : cell[1] = FIELD_TOTAL_HEIGHT - 1
    /\ \E y \in 0..(FIELD_TOTAL_HEIGHT - 1), x \in 0..(FIELD_WIDTH - 1) :
           CellAt(state.matrix, y, x) # NullCell

\* The direction a rotation intent turns the piece in.
DirectionOf(op) == IF op = "rotateClockwise" THEN "clockwise" ELSE "counterclockwise"

\* The offsets tried for a piece and a direction, in the order of the kick
\* table of its class and transition.
KickTests(piece, direction) ==
    getWallKickTable(piece.type)[getRotationTransitionKey(piece.rotation,
        getNextRotationState(piece.rotation, direction))]

\* The piece turned to the target rotation and moved by an offset.
Kicked(piece, direction, kick) ==
    Piece(piece.type, piece.position.x + kick[1], piece.position.y + kick[2],
          getNextRotationState(piece.rotation, direction))

\* The places in the table of the offsets whose placement does not collide:
\* every cell inside the grid and on an empty cell.
FreeKicks(piece, direction, matrix) ==
    {i \in DOMAIN KickTests(piece, direction) :
        \E placed \in {Kicked(piece, direction, KickTests(piece, direction)[i])} :
            ~checkCollision(placed, matrix, placed.position, placed.rotation)}

\* C20: a rotation attempt on the active piece of a game being played, with
\* an offset of the kick table whose placement does not collide, turns the
\* piece to the target rotation at its position plus the first such offset in
\* table order, and reports success.
C20_RotationTakesFirstFreeKick ==
    [][/\ lastOp' \in RotateIntents
       /\ state.status = Playing
       /\ state.activePiece # NullPiece
       => \E free \in {FreeKicks(state.activePiece, DirectionOf(lastOp'), state.matrix)} :
              free # {} =>
                  /\ ret' = RetBool(TRUE)
                  /\ \E i \in free :
                        /\ \A j \in free : i <= j
                        /\ state'.activePiece =
                               Kicked(state.activePiece, DirectionOf(lastOp'),
                                      KickTests(state.activePiece, DirectionOf(lastOp'))[i])]_vars

\* The 4 x 4 box of the mask of a piece lies inside the grid and on empty
\* cells: the piece stands in an empty region, away from walls and floor.
InEmptyRegion(piece, matrix) ==
    /\ piece.position.x >= 0 /\ piece.position.x + 3 < FIELD_WIDTH
    /\ piece.position.y >= 0 /\ piece.position.y + 3 < FIELD_TOTAL_HEIGHT
    /\ \A dy \in 0..3, dx \in 0..3 :
           CellAt(matrix, piece.position.y + dy, piece.position.x + dx) = NullCell

\* C21: a rotation intent on an active piece that stands in an empty region
\* of the grid succeeds with the offset (0,0): the controller returns true and
\* the piece is at the same position in rotation (r+1) mod 4 for
\* rotateClockwise and (r+3) mod 4 for rotateCounterclockwise.
C21_RotationInEmptyRegion ==
    [][/\ lastOp' \in RotateIntents
       /\ state.status = Playing
       /\ state.activePiece # NullPiece
       /\ InEmptyRegion(state.activePiece, state.matrix)
       => /\ ret' = RetBool(TRUE)
          /\ state'.activePiece =
                 [state.activePiece EXCEPT
                     !.rotation = IF lastOp' = "rotateClockwise"
                                  THEN (@ + 1) % 4 ELSE (@ + 3) % 4]]_vars

\* A rotation refused with every offset of the transition colliding, while
\* the lock delay of the landed piece runs after a reset.
C22_Witness ==
    /\ lastOp \in RotateIntents
    /\ ret = RetBool(FALSE)
    /\ state.status = Playing
    /\ state.activePiece # NullPiece
    /\ ~checkCollision(state.activePiece, state.matrix, state.activePiece.position,
                        state.activePiece.rotation)
    /\ FreeKicks(state.activePiece, DirectionOf(lastOp), state.matrix) = {}
    /\ lockDelaySystem.isActive
    /\ lockDelaySystem.timerId = "pending"

\* C22: a rotation intent on the active piece of a game being played, with
\* every offset of the kick table of its transition colliding, returns false
\* and leaves the piece (rotation and position), the grid and the lock delay
\* (timer, activation and move count) as they were.
C22_BlockedRotationIsNoOp ==
    [][/\ lastOp' \in RotateIntents
       /\ state.status = Playing
       /\ state.activePiece # NullPiece
       /\ FreeKicks(state.activePiece, DirectionOf(lastOp'), state.matrix) = {}
       => /\ ret' = RetBool(FALSE)
          /\ state' = state
          /\ lockDelaySystem' = lockDelaySystem]_vars

\* C23: a rotation intent on an active O piece that stands on empty cells
\* succeeds and changes the rotation state only: every transition of the O
\* kick table has the single offset (0,0), the position is as before and so
\* are the cells the piece covers and the grid.
C23_ORotationChangesRotationOnly ==
    [][/\ lastOp' \in RotateIntents
       /\ state.status = Playing
       /\ state.activePiece.type = "O"
       /\ ~checkCollision(state.activePiece, state.matrix, state.activePiece.position,
                          state.activePiece.rotation)
       => /\ \A key \in DOMAIN WALL_KICK_DATA_O : WALL_KICK_DATA_O[key] = <<<<0, 0>>>>
          /\ ret' = RetBool(TRUE)
          /\ state'.activePiece =
                 [state.activePiece EXCEPT
                     !.rotation = getNextRotationState(@, DirectionOf(lastOp'))]
          /\ CollisionCells("O", state'.activePiece.position, state'.activePiece.rotation)
                 = CollisionCells("O", state.activePiece.position,
                                  state.activePiece.rotation)
          /\ state'.matrix = state.matrix]_vars

\* The values the next n calls of next() return.
RECURSIVE NextN(_, _)
NextN(pb, n) ==
    IF n <= 0 THEN <<>>
    ELSE LET drawn == PieceBagNext(pb)
         IN  <<drawn.value>> \o NextN(drawn.pieceBag, n - 1)

\* The draws made since the last bag boundary: a boundary is the
\* construction, a reset, or the 7th draw after a boundary.
Drawn(pb) == SubSeq(pb.bag, 1, pb.index)

\* Each of the 7 piece types exactly once
IsFullBag(types) ==
    /\ Len(types) = Cardinality(TetrominoType)
    /\ {types[i] : i \in DOMAIN types} = TetrominoType

\* The draws made since the last boundary and the draws to come up to the
\* next one hold each type once.
FullWindow(pb) ==
    /\ pb.index <= Cardinality(TetrominoType)
    /\ IsFullBag(Drawn(pb) \o NextN(pb, Cardinality(TetrominoType) - pb.index))

\* C24: for every seed, the draws 7k+1 .. 7k+7 counted from the construction
\* or the last reset hold each of the 7 piece types exactly once, whatever
\* peek() calls are made in between: next() appends what it returns to the
\* draws of the window, peek() leaves them alone, reset() starts a window,
\* and in every state the window made and to come is a full bag.
C24_AlignedDrawsHoldEachTypeOnce ==
    [][/\ FullWindow(pieceBag)
       /\ FullWindow(pieceBag')
       /\ lastOp' = "next" =>
              Drawn(pieceBag') =
                  (IF pieceBag.index >= Len(pieceBag.bag) THEN <<>> ELSE Drawn(pieceBag))
                      \o <<ret'.val>>
       /\ lastOp' = "peek" => Drawn(pieceBag') = Drawn(pieceBag)
       /\ lastOp' = "resetBag" => Drawn(pieceBag') = <<>>]_vars

\* How many draws of two sequences are compared.
CompareLen == 22

\* C25: a randomizer reset with a seed is the randomizer constructed with
\* that seed, whatever was drawn, looked at or reset before: the two produce
\* the same draws, and the same lists from peek().
C25_SameSeedSameDraws ==
    [][lastOp' = "resetBag" /\ ret'.seed # <<>> =>
          \E fresh \in {NewGameController(ret'.seed[1]).pieceBag} :
              /\ NextN(pieceBag', CompareLen) = NextN(fresh, CompareLen)
              /\ \A n \in PeekCounts :
                     PieceBagPeek(pieceBag', n).result = PieceBagPeek(fresh, n).result]_vars

\* A reset with the seed 66 after the last of the draws.
C25_Witness ==
    /\ lastOp = "resetBag"
    /\ ret.seed = <<66>>
    /\ draws = MaxBagDraws
    /\ NextN(pieceBag, 7) = <<"S", "T", "J", "Z", "I", "L", "O">>

\* C26: the list peek(n) has returned is the sequence the following n calls
\* of next() return, for every n and every state of the randomizer.
C26_PeekIsTheNextDraws ==
    lastOp = "peek" => ret.val = NextN(pieceBag, Len(ret.val))

\* C27: peek(n) has no effect on a later result: the draws that follow it
\* and the lists later peek() calls return are those the randomizer would
\* have given without the call.
C27_PeekDoesNotConsume ==
    [][lastOp' = "peek" =>
          /\ NextN(pieceBag', CompareLen) = NextN(pieceBag, CompareLen)
          /\ \A n \in PeekCounts :
                 PieceBagPeek(pieceBag', n).result = PieceBagPeek(pieceBag, n).result]_vars

ResetOps == {"reset(true)", "reset(false)"}

\* A reset() reaches a lock delay that runs in a mode.
ResetIn(mode) ==
    /\ lastOp' \in ResetOps
    /\ lockDelaySystem.isActive
    /\ lockDelaySystem.mode = mode

\* The lock delay after a reset that restarted its timer and counted n moves
Restarted(n) ==
    lockDelaySystem' = [lockDelaySystem EXCEPT !.timerId = "pending",
                                               !.timeLeft = delayDuration,
                                               !.moveCount = @ + n]

\* C28: in move-reset mode the resets 1 to 14 of an activation each restart
\* the 500 ms timer without running the lock callback, and reset 15 runs the
\* callback at once, whatever time was left, and ends the lock delay.
C28_FifteenthResetForcesLock ==
    [][ResetIn(MoveReset) =>
          /\ lockDelaySystem.moveCount < maxMoves
          /\ lockDelaySystem.moveCount + 1 < maxMoves =>
                 Restarted(1) /\ ret'.callbacks = 0
          /\ lockDelaySystem.moveCount + 1 = maxMoves =>
                 /\ ret'.callbacks = 1
                 /\ ~lockDelaySystem'.isActive
                 /\ lockDelaySystem'.timerId = "null"
                 /\ lockDelaySystem'.moveCount = 0]_vars

\* The 15th reset ran the lock callback.
C28_Witness ==
    /\ lastOp \in ResetOps
    /\ ret.callbacks = 1
    /\ lockDelaySystem.mode = MoveReset
    /\ ~lockDelaySystem.isActive

\* C29: in step-reset mode a reset that is not a downward move leaves the
\* timer as it is, a downward reset restarts it at 500 ms, neither runs the
\* lock callback, and the callback of the timer runs when the 500 ms since
\* the start or the last downward reset have passed.
C29_StepResetOnlyOnDownwardMove ==
    [][/\ ResetIn(StepReset) /\ lastOp' = "reset(false)" =>
              lockDelaySystem' = lockDelaySystem /\ ret'.callbacks = 0
       /\ ResetIn(StepReset) /\ lastOp' = "reset(true)" =>
              Restarted(0) /\ ret'.callbacks = 0
       /\ lastOp' = "start" /\ ~lockDelaySystem.isActive =>
              /\ lockDelaySystem'.timeLeft = delayDuration
              /\ lockDelaySystem'.timerId = "pending"
       /\ lastOp' = "advanceTime" =>
              \E dt \in TimeSteps :
                  lockDelaySystem' = [lockDelaySystem EXCEPT !.timeLeft = @ - dt]
       /\ lastOp' = "lockDelayExpire" =>
              lockDelaySystem.timeLeft = 0 /\ ret'.callbacks = 1]_vars

\* A sideways reset in step-reset mode with half of the delay gone
C29_Witness ==
    /\ lastOp = "reset(false)"
    /\ lockDelaySystem.mode = StepReset
    /\ lockDelaySystem.isActive
    /\ lockDelaySystem.timerId = "pending"
    /\ lockDelaySystem.timeLeft = delayDuration \div 2

\* C30: in infinity mode every reset restarts the 500 ms timer, none runs the
\* lock callback or counts a move, so the lock delay goes on for as long as
\* resets arrive less than 500 ms apart.
C30_InfinityResetsWithoutCap ==
    [][ResetIn(Infinity) =>
          /\ Restarted(0)
          /\ ret'.callbacks = 0
          /\ lockDelaySystem'.isActive
          /\ lockDelaySystem'.moveCount = 0]_vars

\* A reset in infinity mode that restarted the timer
C30_Witness ==
    /\ lastOp \in ResetOps
    /\ lockDelaySystem.mode = Infinity
    /\ lockDelaySystem.isActive
    /\ lockDelaySystem.timerId = "pending"
    /\ lockDelaySystem.timeLeft = delayDuration
\* The points the lock of the step awards for the rows it completes: none
\* when the lock ends the game without committing the piece.
LockLinePoints ==
    {IF \E row \in PieceRows(LockedPiece) : row < 20 THEN 0 ELSE LinePoints(k) * state.level :
        k \in CompletedByLock}

\* C31: a hardDrop that descends the piece by d rows returns d and awards
\* exactly 2*d drop points for that descent, on top of the line-clear points
\* of the resulting lock, whatever the soft-drop state is; d = 0 awards no
\* drop points.
C31_HardDropAwardsTwoPerRow ==
    [][(lastOp' = "hardDrop" /\ state.status = Playing /\ HasActivePiece)
       => \E d \in {Landing(state.activePiece, state.matrix).position.y
                        - state.activePiece.position.y} :
              /\ ret' = RetNum(d)
              /\ \E points \in LockLinePoints : state'.score = state.score + 2 * d + points]_vars
\* C32: the soft-drop bonus is 1 point per row descended voluntarily: each
\* successful soft-drop descent adds exactly 1 point, and a descent caused by
\* a gravity tick adds no points, whichever piece is active.
C32_SoftDropScoresVoluntaryRows ==
    [][/\ (/\ lastOp' = "softDropStart"
           /\ state.status = Playing
           /\ HasActivePiece
           /\ canMoveDown(state.activePiece, state.matrix))
          => state'.score = state.score + 1
       /\ lastOp' = "gravityTick" => state'.score = state.score]_vars
\* C33: after pause() and until resume() is called, the tick callback of the
\* gravity clock is never invoked, whatever is called in between, setLevel()
\* and start() included.
C33_NoTickWhilePaused ==
    [][(lastOp' = "gravityTick" /\ state.status = Paused) => ret' = RetCallbacks(0)]_vars
\* C34: startGame() called from any state (Playing, Paused or GameOver, with
\* or without a pending lock delay) yields: empty grid, score 0, level 1,
\* lines cleared 0, status Playing, exactly one freshly spawned active piece,
\* lock delay inactive, and the gravity clock running at the level-1
\* interval.
C34_StartGameResets ==
    [][lastOp' = "startGame"
       => (/\ state'.matrix = EmptyMatrix
           /\ state'.score = 0
           /\ state'.level = 1
           /\ state'.linesCleared = 0
           /\ state'.status = Playing
           /\ state'.activePiece = [DrawnPiece EXCEPT !.position.y = @ + 1]
           /\ draws' = draws + 1
           /\ ~lockDelaySystem'.isActive
           /\ lockDelaySystem'.timerId # "pending"
           /\ lockDelaySystem'.moveCount = 0
           /\ gravitySystem'.timerId = "interval"
           /\ ~gravitySystem'.isPaused
           /\ gravitySystem'.timerInterval = calculateInterval(1))]_vars

\* C34 witness: the game has been started anew in the middle of the play of
\* a piece the player was soft-dropping.
C34_Witness ==
    /\ lastOp = "startGame"
    /\ draws = BuildPieces + 2
    /\ isSoftDropping
    /\ state.matrix = EmptyMatrix
    /\ GravityRunning
\* The step spawns a piece: one draw is made, no error is thrown and the
\* game is not over afterwards.
SpawnSucceeds == draws' = draws + 1 /\ ret' # Thrown /\ state'.status # GameOver

\* The types drawn from the current bag so far.
TypesShown == {pieceBag.bag[i] : i \in 1..pieceBag.index}

\* C35: every successful spawn consumes exactly one draw from the randomizer
\* and creates the active piece with that type at rotation 0, at column
\* x = 3 (x = 4 for O), one row below its raw spawn row 21; each of the first
\* 7 spawns of a controller, whatever its seed, succeeds on a grid that
\* leaves the spawn cells free and shows one of the 7 types not shown before.
C35_SpawnDrawsOnePiece ==
    [][/\ SpawnSucceeds
          => (/\ pieceBag' = PieceBagNext(pieceBag).pieceBag
              /\ state'.activePiece # NullPiece
              /\ state'.activePiece.type = PieceBagNext(pieceBag).value
              /\ state'.activePiece.rotation = 0
              /\ state'.activePiece.position.x
                     = (IF state'.activePiece.type = "O" THEN 4 ELSE 3)
              /\ state'.activePiece.position.y = 22)
       /\ (lastOp' = "spawnNextPiece" /\ draws < 7 /\ state.status # GameOver
               /\ state.matrix = EmptyMatrix)
          => (/\ SpawnSucceeds
              /\ state'.activePiece # NullPiece
              /\ state'.activePiece.type \in TetrominoType \ TypesShown)]_vars
\* C36: each activation of the lock delay by start() leads to at most one
\* invocation of the lock callback: the callback runs only while the lock
\* delay is active and its run ends the activation; cancel() and stop() run
\* no callback and leave the system inactive with move count 0 and no timer
\* pending; and while the system is inactive no callback runs and nothing
\* but start() activates it or schedules a timer.
C36_OneLockPerActivation ==
    [][/\ ret' = RetCallbacks(1)
          => (/\ lockDelaySystem.isActive
              /\ ~lockDelaySystem'.isActive
              /\ lockDelaySystem'.timerId # "pending")
       /\ lastOp' \in {"cancel", "stop"}
          => (/\ ret' = RetCallbacks(0)
              /\ ~lockDelaySystem'.isActive
              /\ lockDelaySystem'.moveCount = 0
              /\ lockDelaySystem'.timerId # "pending")
       /\ (~lockDelaySystem.isActive /\ lastOp' # "start")
          => (/\ ret' # RetCallbacks(1)
              /\ ~lockDelaySystem'.isActive
              /\ lockDelaySystem'.timerId # "pending")]_vars

\* C36 witness: stop() has ended a lock delay of the step-reset mode, which
\* no reset had brought to its lock.
C36_Witness ==
    /\ lastOp = "stop"
    /\ ret = RetCallbacks(0)
    /\ lockDelaySystem.mode = StepReset
    /\ lockDelaySystem.timerId = "null"
    /\ ~lockDelaySystem.isActive
\* C37: from every reachable state with status Playing and an active piece,
\* if no further player intent arrives and only gravity ticks and the expiry
\* of the lock delay occur, the active piece is eventually locked or the
\* game reaches GameOver, whatever pause() and resume() calls came before.
C37_PieceLocksWithoutInput ==
    (lastOp = "idle") ~> (lastOp = "idleLockDelayExpire" \/ state.status = GameOver)
\* The active piece where the operation op of the step has moved it before
\* any lock is made.
MovedPiece(op) ==
    IF op = "moveLeft" THEN [state.activePiece EXCEPT !.position.x = @ - 1]
    ELSE IF op = "moveRight" THEN [state.activePiece EXCEPT !.position.x = @ + 1]
    ELSE IF op \in {"moveDown", "softDropStart", "gravityTick"}
    THEN [state.activePiece EXCEPT !.position.y = @ + 1]
    ELSE state.activePiece

\* C38: a piece is committed to the grid only while it is resting: in every
\* step in which a lock writes the cells of the piece (the expiry of the
\* lock delay, the forced lock of a move at the move cap, a hard drop), the
\* piece written cannot descend one more row; the piece a hard drop writes
\* is the piece at its landing row.
C38_LockOnlyWhenResting ==
    [][(HasActivePiece /\ lastOp' # "startGame" /\ state'.matrix # state.matrix)
       => IF lastOp' = "hardDrop" THEN LockCommits
          ELSE ~canMoveDown(MovedPiece(lastOp'), state.matrix)]_vars

\* C39: a lock-delay timer started for one piece never locks another piece:
\* in every step in which a new piece becomes the active piece (after a
\* lock, a hard drop, startGame or a direct spawnNextPiece call) the lock
\* delay is afterwards inactive, no lock timer is pending and the move
\* count is 0.
C39_NewPieceHasNoLockTimer ==
    [][(draws' > draws /\ state'.activePiece # NullPiece)
       => /\ ~lockDelaySystem'.isActive
          /\ lockDelaySystem'.timerId # "pending"
          /\ lockDelaySystem'.moveCount = 0]_vars

====
